---- MODULE Spec2Model ----
(***************************************************************************)
(* DocAIAgent: OCR line reconstruction, the OCR adapter, and the three     *)
(* LLM-mediated stages (classify, extract, review) with their response     *)
(* parsers.                                                                *)
(***************************************************************************)
EXTENDS Integers, Sequences, FiniteSets, TLC

VARIABLES
    \* response parsers (parse_extraction, parse_review)
    fields,       \* the requested field list
    response,     \* the model's reply
    op,           \* which parser ran ("init" before any)
    result,       \* what the parser returned
    \* line reconstructor (_convert_lines_to_reading_order)
    line_data,    \* the caller's list of lines, as passed in
    lr,           \* the outcome of the call ("none" before it)
    \* OCR adapter (extract_text) and its backends
    ocr_engine,   \* the engine name extract_text was called with
    pc,           \* where extract_text is: "start", "google_attempt", "returned", "done"
    backend,      \* what the backend call returned or raised ("none" before it)
    calls,        \* _call_google_vision_ocr: the outcome of each attempt so far
    sleeps,       \* _call_google_vision_ocr: the delays slept so far, in seconds
    ocr_text,     \* what extract_text returned ("none" before it)
    \* pipeline stages (classify_and_suggest_fields, extract_fields, review_fields)
    text,         \* the document text passed to the stage
    extracted,    \* review_fields: the extracted_data field/value map
    llm_calls,    \* how many times llm_call was invoked
    \* orchestrator (app.py)
    session_state, \* st.session_state: step, image_bytes, ocr_text, ... ("none" outside the app)
    invocations,  \* the stages called since the last upload, with the reply each got
    final_json,   \* the data of the download button ("none" until it is drawn)
    \* classification prompt (utils/classifier_utils.py)
    image_bytes,  \* the image passed to create_classification_prompt_messages
    \* orchestrator (gradio_app.py)
    gr,           \* the gr.State values and the components the handlers write
    upload_run,   \* handle_upload: where the generator is, with its locals
    confirm_run,  \* handle_confirm_and_extract: where the generator is, with its locals
    provenance    \* for each artifact of the session, the upload it was made from

parseVars == <<fields, response, op, result>>
lineVars == <<line_data, lr>>
ocrVars == <<ocr_engine, pc, backend, calls, sleeps, ocr_text>>
stageVars == <<text, extracted, llm_calls>>
appVars == <<session_state, invocations, final_json>>
promptVars == <<image_bytes>>
grVars == <<gr, upload_run, confirm_run, provenance>>
vars == <<fields, response, op, result, line_data, lr,
          ocr_engine, pc, backend, calls, sleeps, ocr_text,
          text, extracted, llm_calls, session_state, invocations, final_json,
          image_bytes, gr, upload_run, confirm_run, provenance>>

(***************************************************************************)
(* Python strings.  A string is a word in a letter case, possibly with     *)
(* surrounding whitespace; str.lower, str.upper and str.strip act on that. *)
(* The empty string has no case.                                           *)
(***************************************************************************)
S(w, c, pad) == [w |-> w, c |-> c, pad |-> pad]
EmptyStr == S("", "lower", FALSE)

Lower(s) == IF s.w = "" THEN s ELSE [s EXCEPT !.c = "lower"]
Upper(s) == IF s.w = "" THEN s ELSE [s EXCEPT !.c = "upper"]
Strip(s) == [s EXCEPT !.pad = FALSE]
\* bool(s): a non-empty string is truthy (whitespace counts)
Truthy(s) == s.w # "" \/ s.pad

(***************************************************************************)
(* JSON values as json.loads returns them.  A dict is a sequence of        *)
(* key/value pairs with distinct keys, in insertion order.                 *)
(***************************************************************************)
JNull == [t |-> "null"]
JStr(s) == [t |-> "str", s |-> s]
JNum == [t |-> "num"]
JArr(items) == [t |-> "arr", items |-> items]
JObj(pairs) == [t |-> "obj", pairs |-> pairs]
Pair(k, v) == [k |-> k, v |-> v]

isinstance_dict(v) == v.t = "obj"
isinstance_str(v) == v.t = "str"
isinstance_list(v) == v.t = "arr"

\* key in d
HasKey(d, k) == \E i \in 1..Len(d.pairs) : d.pairs[i].k = k
\* d[key]
GetKey(d, k) == d.pairs[CHOOSE i \in 1..Len(d.pairs) : d.pairs[i].k = k].v
\* str(v)
StrOf(v) ==
    CASE v.t = "str" -> v.s
      [] v.t = "null" -> S("none", "mixed", FALSE)
      [] v.t = "num" -> S("1", "lower", FALSE)
      [] v.t = "arr" -> S("[...]", "lower", FALSE)
      [] OTHER -> S("{...}", "lower", FALSE)

Range(s) == {s[i] : i \in 1..Len(s)}

(***************************************************************************)
(* A reply of the model.  wrap says how the payload sits in the text:      *)
(* "fenced" inside ```json\n ... \n```, "bare" with prose before and       *)
(* after, "none" when the reply is prose only.  The payload (body) is a    *)
(* JSON value or text that json.loads rejects.  docTypeLine and fieldsLine *)
(* are the `Doc Type:` and `Fields:` lines only the classifier reads.      *)
(***************************************************************************)
Valid(v) == [t |-> "json", v |-> v]
Garbage == [t |-> "garbage"]
Prose == [t |-> "prose"]
NoLine == [t |-> "absent"]
Reply(wrap, body) ==
    [wrap |-> wrap, body |-> body, docTypeLine |-> NoLine, fieldsLine |-> NoLine]

\* outcome of locating / decoding
Found(x) == [found |-> TRUE, x |-> x]
NotFound == [found |-> FALSE]
Return(v) == [kind |-> "return", value |-> v]
Raise(e) == [kind |-> "raise", exc |-> e]

\* re.search(r"```json\n(.*?)\n```", response): the text inside the fence
FencedMatch(resp) == IF resp.wrap = "fenced" THEN Found(resp.body) ELSE NotFound

\* the text has a '{' before a '}' : a JSON object, or malformed text in braces
HasBraces(body) ==
    \/ body.t = "garbage"
    \/ body.t = "json" /\ body.v.t = "obj"

\* json.loads(json_str)
json_loads(body) ==
    IF body.t = "json" THEN Return(body.v) ELSE Raise("JSONDecodeError")

\* try: body / except <excs>: handler
Catch(outcome, excs, handler) ==
    IF outcome.kind = "raise" /\ outcome.exc \in excs THEN handler ELSE outcome
\* what `except Exception` catches
AnyException == {"JSONDecodeError", "TypeError", "KeyError", "AttributeError"}

\* k.lower().strip()
NormKey(k) == Strip(Lower(k))
\* normalised key in {k.lower().strip(): ... for k, v in data.items()}
LowerMapHas(d, nk) == \E i \in 1..Len(d.pairs) : NormKey(d.pairs[i].k) = nk
\* the comprehension keeps, for equal normalised keys, the pair inserted last
LowerMapGet(d, nk) ==
    LET hits == {i \in 1..Len(d.pairs) : NormKey(d.pairs[i].k) = nk}
        last == CHOOSE i \in hits : \A j \in hits : j <= i
    IN d.pairs[last]

(***************************************************************************)
(* Review results                                                          *)
(***************************************************************************)
PASS == S("pass", "upper", FALSE)
FAIL == S("fail", "upper", FALSE)
ERROR == S("error", "upper", FALSE)
NEEDS_IMPROVEMENT == S("needs_improvement", "upper", FALSE)
K_status == S("status", "lower", FALSE)
K_feedback == S("feedback", "lower", FALSE)

\* a feedback string: a literal text followed by an interpolated string
Fb(pre, val) == [pre |-> pre, val |-> val]
Entry(status, feedback) == [status |-> status, feedback |-> feedback]

\* review_item.get('feedback', '')
GetFeedback(item) ==
    IF HasKey(item, K_feedback) THEN StrOf(GetKey(item, K_feedback)) ELSE EmptyStr

\* reviewer.py: the json_str parse_review decodes
ReviewJsonStr(resp) ==
    IF FencedMatch(resp).found THEN FencedMatch(resp)
    ELSE IF resp.wrap = "bare" /\ HasBraces(resp.body) THEN Found(resp.body)
    ELSE NotFound

\* the item looked up for one field; None and JSON null are the same value
ReviewItem(data, field) ==
    IF LowerMapHas(data, NormKey(field)) THEN LowerMapGet(data, NormKey(field)).v
    ELSE IF HasKey(data, field) THEN GetKey(data, field)
    ELSE JNull

\* reviewer.py: the statuses a model item may carry through
ValidStatuses == {PASS, FAIL, NEEDS_IMPROVEMENT}

\* mutant: a field without an item keeps its initial entry
ReviewEntry_KeepsInitial(data, field) ==
    LET review_item == ReviewItem(data, field) IN
    IF review_item # JNull
    THEN IF isinstance_dict(review_item) /\ HasKey(review_item, K_status)
         THEN LET status == Strip(Upper(StrOf(GetKey(review_item, K_status))))
                  feedback == Strip(GetFeedback(review_item))
              IN IF status \in ValidStatuses
                 THEN Entry(status, Fb("", feedback))
                 ELSE Entry(FAIL, Fb("Invalid status received: ", status))
         ELSE Entry(ERROR, Fb("Invalid review item format: ", StrOf(review_item)))
    ELSE Entry(ERROR, Fb("Parsing failed", EmptyStr))

\* mutant: the status of the item is stored without the validity check
ReviewEntry_NoStatusCheck(data, field) ==
    LET review_item == ReviewItem(data, field) IN
    IF review_item # JNull
    THEN IF isinstance_dict(review_item) /\ HasKey(review_item, K_status)
         THEN Entry(Strip(Upper(StrOf(GetKey(review_item, K_status)))),
                    Fb("", Strip(GetFeedback(review_item))))
         ELSE Entry(ERROR, Fb("Invalid review item format: ", StrOf(review_item)))
    ELSE Entry(ERROR, Fb("Field not found in review response", EmptyStr))

\* mutant: ERROR counts as a status the model may give
ReviewEntry_PassesError(data, field) ==
    LET review_item == ReviewItem(data, field) IN
    IF review_item # JNull
    THEN IF isinstance_dict(review_item) /\ HasKey(review_item, K_status)
         THEN LET status == Strip(Upper(StrOf(GetKey(review_item, K_status))))
                  feedback == Strip(GetFeedback(review_item))
              IN IF status \in ValidStatuses \cup {ERROR}
                 THEN Entry(status, Fb("", feedback))
                 ELSE Entry(FAIL, Fb("Invalid status received: ", status))
         ELSE Entry(ERROR, Fb("Invalid review item format: ", StrOf(review_item)))
    ELSE Entry(ERROR, Fb("Field not found in review response", EmptyStr))

\* reviewer.py: body of the `for field in fields` loop
ReviewEntry(data, field) ==
    LET review_item == ReviewItem(data, field) IN
    IF review_item # JNull
    THEN IF isinstance_dict(review_item) /\ HasKey(review_item, K_status)
         THEN LET status == Strip(Upper(StrOf(GetKey(review_item, K_status))))
                  feedback == Strip(GetFeedback(review_item))
              IN IF status \in ValidStatuses
                 THEN Entry(status, Fb("", feedback))
                 ELSE Entry(FAIL, Fb("Invalid status received: ", status))
         ELSE Entry(ERROR, Fb("Invalid review item format: ", StrOf(review_item)))
    ELSE Entry(ERROR, Fb("Field not found in review response", EmptyStr))

RECURSIVE ReviewLoop(_, _, _, _)
ReviewLoop(data, flds, i, acc) ==
    IF i > Len(flds) THEN acc
    ELSE ReviewLoop(data, flds, i + 1,
                    [acc EXCEPT ![flds[i]] = ReviewEntry(data, flds[i])])

\* reviewer.py parse_review(response, fields)
parse_review(resp, flds) ==
    LET review_results ==
            [f \in Range(flds) |-> Entry(ERROR, Fb("Parsing failed", EmptyStr))]
        json_str == ReviewJsonStr(resp)
        decoded == json_loads(json_str.x)
        inner ==
            IF decoded.kind = "raise" THEN decoded
            ELSE IF isinstance_dict(decoded.value)
                 THEN Return(ReviewLoop(decoded.value, flds, 1, review_results))
                 ELSE Return(review_results)
        body ==
            IF json_str.found
            THEN Catch(inner, {"JSONDecodeError"}, Return(review_results))
            ELSE Return(review_results)
    IN Catch(body, AnyException, Return(review_results))

\* utils/reviewer_utils.py: the json_str parse_review decodes
UtilsReviewJsonStr(resp) ==
    IF FencedMatch(resp).found THEN FencedMatch(resp)
    ELSE IF resp.wrap = "bare" /\ HasBraces(resp.body) THEN Found(resp.body)
    ELSE NotFound

\* mutant: an invalid status is reported as ERROR instead of FAIL
UtilsReviewEntry_CoercesToError(data, field) ==
    LET review_item == ReviewItem(data, field) IN
    IF review_item # JNull /\ isinstance_dict(review_item) /\ HasKey(review_item, K_status)
    THEN LET status == Strip(Upper(StrOf(GetKey(review_item, K_status))))
             feedback == Strip(GetFeedback(review_item))
         IN IF status \in {PASS, FAIL}
            THEN Entry(status, Fb("", feedback))
            ELSE Entry(ERROR, Fb("Invalid status: ", status))
    ELSE IF review_item # JNull
         THEN Entry(ERROR, Fb("Invalid review item format", EmptyStr))
         ELSE Entry(ERROR, Fb("Field not found in review response", EmptyStr))

\* utils/reviewer_utils.py: body of the `for field in fields` loop
UtilsReviewEntry(data, field) ==
    LET review_item == ReviewItem(data, field) IN
    IF review_item # JNull /\ isinstance_dict(review_item) /\ HasKey(review_item, K_status)
    THEN LET status == Strip(Upper(StrOf(GetKey(review_item, K_status))))
             feedback == Strip(GetFeedback(review_item))
         IN IF status \in {PASS, FAIL}
            THEN Entry(status, Fb("", feedback))
            ELSE Entry(FAIL, Fb("Invalid status: ", status))
    ELSE IF review_item # JNull
         THEN Entry(ERROR, Fb("Invalid review item format", EmptyStr))
         ELSE Entry(ERROR, Fb("Field not found in review response", EmptyStr))

RECURSIVE UtilsReviewLoop(_, _, _, _)
UtilsReviewLoop(data, flds, i, acc) ==
    IF i > Len(flds) THEN acc
    ELSE UtilsReviewLoop(data, flds, i + 1,
                         [acc EXCEPT ![flds[i]] = UtilsReviewEntry(data, flds[i])])

\* utils/reviewer_utils.py parse_review(response, fields)
utils_parse_review(resp, flds) ==
    LET review_results ==
            [f \in Range(flds) |-> Entry(ERROR, Fb("Parsing failed", EmptyStr))]
        json_str == UtilsReviewJsonStr(resp)
        decoded == json_loads(json_str.x)
        inner ==
            IF decoded.kind = "raise" THEN decoded
            ELSE IF isinstance_dict(decoded.value)
                 THEN Return(UtilsReviewLoop(decoded.value, flds, 1, review_results))
                 ELSE Return(review_results)
        body ==
            IF json_str.found
            THEN Catch(inner, {"JSONDecodeError"}, Return(review_results))
            ELSE Return(review_results)
    IN Catch(body, AnyException, Return(review_results))

(***************************************************************************)
(* Extraction results                                                      *)
(***************************************************************************)
\* the text of a JSON value contains a '}'
ContainsBrace(v) == v.t = "obj"

\* re.search(r"({\s*['\"]?.*?['\"]?\s*:[\s\S]*?})", response): from the first
\* '{' that a ':' follows up to the first '}' after it, so an object with a
\* nested object is cut short and an empty object does not match
ExtractBareMatch(resp) ==
    IF resp.wrap = "bare" /\ HasBraces(resp.body)
    THEN IF resp.body.t = "garbage" THEN Found(Garbage)
         ELSE IF resp.body.v.pairs = <<>> THEN NotFound
         ELSE IF \E i \in 1..Len(resp.body.v.pairs) :
                     ContainsBrace(resp.body.v.pairs[i].v)
              THEN Found(Garbage)
              ELSE Found(resp.body)
    ELSE NotFound

ExtractJsonMatch(resp) ==
    IF FencedMatch(resp).found THEN FencedMatch(resp) ELSE ExtractBareMatch(resp)

\* a loop body that looks the field up as it is spelt before trying its
\* normal form
ExtractValue_ExactFirst(data, field, old) ==
    IF HasKey(data, field) THEN GetKey(data, field)
    ELSE IF LowerMapHas(data, NormKey(field)) THEN LowerMapGet(data, NormKey(field)).v
    ELSE old

\* body of the `for field in fields` loop: the value stored for one field
ExtractValue(data, field, old) ==
    IF LowerMapHas(data, NormKey(field)) THEN LowerMapGet(data, NormKey(field)).v
    ELSE IF HasKey(data, field) THEN GetKey(data, field)
    ELSE old

RECURSIVE ExtractLoop(_, _, _, _)
ExtractLoop(data, flds, i, acc) ==
    IF i > Len(flds) THEN acc
    ELSE ExtractLoop(data, flds, i + 1,
                     [acc EXCEPT ![flds[i]] = ExtractValue(data, flds[i], acc[flds[i]])])

\* mutant: the decoded object itself is returned, with the reply's keys
parse_extraction_ReturnsData(resp, flds) ==
    LET extracted_data == [f \in Range(flds) |-> JNull]
        json_match == ExtractJsonMatch(resp)
        decoded == json_loads(json_match.x)
        inner ==
            IF decoded.kind = "raise" THEN decoded
            ELSE IF isinstance_dict(decoded.value)
                 THEN Return([k \in {decoded.value.pairs[i].k : i \in 1..Len(decoded.value.pairs)}
                                 |-> GetKey(decoded.value, k)])
                 ELSE Return(extracted_data)
        body ==
            IF json_match.found
            THEN Catch(inner, {"JSONDecodeError"}, Return(extracted_data))
            ELSE Return(extracted_data)
    IN Catch(body, AnyException, Return(extracted_data))

\* extractor.py parse_extraction(response, fields)
parse_extraction(resp, flds) ==
    LET extracted_data == [f \in Range(flds) |-> JNull]
        json_match == ExtractJsonMatch(resp)
        decoded == json_loads(json_match.x)
        inner ==
            IF decoded.kind = "raise" THEN decoded
            ELSE IF isinstance_dict(decoded.value)
                 THEN Return(ExtractLoop(decoded.value, flds, 1, extracted_data))
                 ELSE Return(extracted_data)
        body ==
            IF json_match.found
            THEN Catch(inner, {"JSONDecodeError"}, Return(extracted_data))
            ELSE Return(extracted_data)
    IN Catch(body, AnyException, Return(extracted_data))

\* utils/extractor_utils.py parse_extraction(response, fields)
utils_parse_extraction(resp, flds) ==
    LET extracted_data == [f \in Range(flds) |-> JNull]
        json_match == ExtractJsonMatch(resp)
        decoded == json_loads(json_match.x)
        inner ==
            IF decoded.kind = "raise" THEN decoded
            ELSE IF isinstance_dict(decoded.value)
                 THEN Return(ExtractLoop(decoded.value, flds, 1, extracted_data))
                 ELSE Return(extracted_data)
        body ==
            IF json_match.found
            THEN Catch(inner, {"JSONDecodeError"}, Return(extracted_data))
            ELSE Return(extracted_data)
    IN Catch(body, AnyException, Return(extracted_data))

(***************************************************************************)
(* Inputs of the parsers: field names, response keys and response items.   *)
(* "A " and "a" share the normal form "a"; "b" has its own.                *)
(***************************************************************************)
KeyA == S("a", "lower", FALSE)
KeyAUp == S("a", "upper", TRUE)
KeyB == S("b", "lower", FALSE)
Keys == {KeyA, KeyAUp, KeyB}
FieldNames == {KeyA, KeyAUp, KeyB}

Ok == S("ok", "lower", FALSE)
OkPadded == S("ok", "lower", TRUE)
ReviewObj(status, feedback) ==
    JObj(<<Pair(K_status, JStr(status)), Pair(K_feedback, JStr(feedback))>>)
OnlyStatus(status) == JObj(<<Pair(K_status, JStr(status))>>)

Items ==
    { JNull,
      JStr(S("v", "lower", FALSE)),
      JObj(<<Pair(K_feedback, JStr(Ok))>>),
      ReviewObj(PASS, OkPadded),
      ReviewObj(FAIL, Ok),
      OnlyStatus(S("pass", "lower", TRUE)),
      ReviewObj(S("passed", "mixed", FALSE), Ok),
      ReviewObj(NEEDS_IMPROVEMENT, Ok),
      ReviewObj(S("error", "lower", FALSE), Ok) }

MaxFields == 2

SeqsUpTo(X, n) == UNION {[1..k -> X] : k \in 0..n}
Injective(s) == \A i, j \in 1..Len(s) : s[i] = s[j] => i = j

\* Orders in which a dict can hold the keys.  Only the relative order of keys
\* with the same normal form can change a lookup, so "b" is kept last.
KeyOrders ==
    {s \in SeqsUpTo(Keys, Cardinality(Keys)) :
        Injective(s) /\ \A i \in 1..Len(s) : s[i] = KeyB => i = Len(s)}

Objects ==
    UNION {{JObj([i \in 1..Len(ko) |-> Pair(ko[i], vs[i])]) :
                vs \in [1..Len(ko) -> Items]} : ko \in KeyOrders}

FieldLists == SeqsUpTo(FieldNames, MaxFields)

Responses ==
    {Reply("fenced", Valid(o)) : o \in Objects}
    \cup {Reply("bare", Valid(o)) : o \in Objects}
    \cup { Reply("fenced", Valid(JArr(<<>>))), Reply("bare", Valid(JArr(<<>>))),
           Reply("fenced", Valid(JNum)), Reply("fenced", Garbage),
           Reply("bare", Garbage), Reply("none", Prose) }

NoResult == [kind |-> "none"]

(***************************************************************************)
(* The parsers applied to every field list and reply                       *)
(***************************************************************************)
ParseIdle == fields = <<>> /\ response = Reply("none", Prose) /\ op = "idle" /\ result = NoResult
LinesIdle == line_data = <<>> /\ lr = NoResult
OcrIdle ==
    /\ ocr_engine = EmptyStr /\ pc = "idle" /\ backend = NoResult
    /\ calls = <<>> /\ sleeps = <<>> /\ ocr_text = NoResult
StageIdle == text = EmptyStr /\ extracted = <<>> /\ llm_calls = 0
AppIdle == session_state = NoResult /\ invocations = <<>> /\ final_json = NoResult
PromptIdle == image_bytes = NoResult
GradioIdle ==
    /\ gr = NoResult /\ upload_run = NoResult
    /\ confirm_run = NoResult /\ provenance = NoResult

InitParse ==
    /\ AppIdle /\ PromptIdle /\ GradioIdle
    /\ fields \in FieldLists
    /\ response \in Responses
    /\ op = "init"
    /\ result = NoResult
    /\ LinesIdle /\ OcrIdle /\ StageIdle

ParseExtraction ==
    /\ op = "init"
    /\ op' = "parse_extraction"
    /\ result' = parse_extraction(response, fields)
    /\ UNCHANGED <<fields, response, lineVars, ocrVars, stageVars, appVars, promptVars, grVars>>

UtilsParseExtraction ==
    /\ op = "init"
    /\ op' = "utils_parse_extraction"
    /\ result' = utils_parse_extraction(response, fields)
    /\ UNCHANGED <<fields, response, lineVars, ocrVars, stageVars, appVars, promptVars, grVars>>

ParseReview ==
    /\ op = "init"
    /\ op' = "parse_review"
    /\ result' = parse_review(response, fields)
    /\ UNCHANGED <<fields, response, lineVars, ocrVars, stageVars, appVars, promptVars, grVars>>

UtilsParseReview ==
    /\ op = "init"
    /\ op' = "utils_parse_review"
    /\ result' = utils_parse_review(response, fields)
    /\ UNCHANGED <<fields, response, lineVars, ocrVars, stageVars, appVars, promptVars, grVars>>

NextParse ==
    \/ ParseExtraction
    \/ UtilsParseExtraction
    \/ ParseReview
    \/ UtilsParseReview

SpecParse == InitParse /\ [][NextParse]_vars

ExtractionOps == {"parse_extraction", "utils_parse_extraction"}
ReviewOps == {"parse_review", "utils_parse_review"}

\* the reply decoded to a JSON object
DecodedObject(resp) ==
    /\ ReviewJsonStr(resp).found
    /\ ReviewJsonStr(resp).x.t = "json"
    /\ ReviewJsonStr(resp).x.v.t = "obj"
ReplyObject(resp) == ReviewJsonStr(resp).x.v

(***************************************************************************)
(* Claims about the parsers                                                *)
(***************************************************************************)
Parsed == op \in ExtractionOps \cup ReviewOps

\* the reply's keys that match a requested field (trimmed, case-insensitive)
MatchingKeys(d, f) == {i \in 1..Len(d.pairs) : Strip(Lower(d.pairs[i].k)) = Strip(Lower(f))}
\* the item the reply gives for a field: that of its last matching key
ItemOf(d, f) == d.pairs[CHOOSE i \in MatchingKeys(d, f) : \A j \in MatchingKeys(d, f) : j <= i].v
StatusOf(item) == GetKey(item, K_status)
FeedbackOf(item) == GetKey(item, K_feedback)
HasStatus(item) == item.t = "obj" /\ HasKey(item, K_status)
\* a well-formed {status: PASS|FAIL, feedback} item
WellFormedItem(item) ==
    /\ HasStatus(item)
    /\ HasKey(item, K_feedback)
    /\ StatusOf(item).t = "str" /\ StatusOf(item).s \in {PASS, FAIL}
    /\ FeedbackOf(item).t = "str"

\* C1: whatever the reply (an object with extra or missing keys, JSON that is
\* not an object, no JSON at all), parse_extraction and parse_review return a
\* map whose key set is exactly the set of requested fields.
C1_KeyCoverage ==
    Parsed => /\ result.kind = "return"
              /\ DOMAIN result.value = Range(fields)

\* C1 witness: an object reply with a key no field asks for and without a key
\* for some requested field has been parsed by parse_extraction.
C1_Witness ==
    /\ op = "parse_extraction"
    /\ DecodedObject(response)
    /\ \E i \in 1..Len(ReplyObject(response).pairs) :
           \A f \in Range(fields) : i \notin MatchingKeys(ReplyObject(response), f)
    /\ \E f \in Range(fields) : MatchingKeys(ReplyObject(response), f) = {}
    /\ result.kind = "return"

NotFoundEntry == Entry(ERROR, Fb("Field not found in review response", EmptyStr))

\* C2 as stated: with an object reply, a field without a matching key gets
\* {ERROR, "Field not found in review response"} and a field with a well-formed
\* item gets that item's status and feedback as they are.
C2_AsStated ==
    (op \in ReviewOps /\ DecodedObject(response)) =>
        \A f \in Range(fields) :
            LET d == ReplyObject(response) IN
            /\ MatchingKeys(d, f) = {} => result.value[f] = NotFoundEntry
            /\ (MatchingKeys(d, f) # {} /\ WellFormedItem(ItemOf(d, f))) =>
                   result.value[f] = Entry(StatusOf(ItemOf(d, f)).s,
                                           Fb("", FeedbackOf(ItemOf(d, f)).s))

\* C2 amended: the same, the feedback being the item's feedback with
\* surrounding whitespace trimmed.
C2_DefaultToError ==
    (op \in ReviewOps /\ DecodedObject(response)) =>
        \A f \in Range(fields) :
            LET d == ReplyObject(response) IN
            /\ MatchingKeys(d, f) = {} => result.value[f] = NotFoundEntry
            /\ (MatchingKeys(d, f) # {} /\ WellFormedItem(ItemOf(d, f))) =>
                   result.value[f] = Entry(StatusOf(ItemOf(d, f)).s,
                                           Fb("", Strip(FeedbackOf(ItemOf(d, f)).s)))

\* C2 witness: a review reply lacks one requested field and carries a
\* well-formed item for another, and both got their entries.
C2_Witness ==
    /\ op \in ReviewOps
    /\ DecodedObject(response)
    /\ \E f, g \in Range(fields) :
          LET d == ReplyObject(response) IN
          /\ MatchingKeys(d, f) = {}
          /\ result.value[f] = NotFoundEntry
          /\ MatchingKeys(d, g) # {}
          /\ WellFormedItem(ItemOf(d, g))
          /\ result.value[g].status \in {PASS, FAIL}

\* C3 as stated: every status parse_review returns is PASS, FAIL or ERROR.
C3_AsStated ==
    op \in ReviewOps =>
        \A f \in Range(fields) : result.value[f].status \in {PASS, FAIL, ERROR}

\* C3 amended: every status parse_review returns is PASS, FAIL or ERROR, or,
\* from reviewer.py's parse_review only, NEEDS_IMPROVEMENT.
C3_StatusDomain ==
    /\ op = "utils_parse_review" =>
           \A f \in Range(fields) : result.value[f].status \in {PASS, FAIL, ERROR}
    /\ op = "parse_review" =>
           \A f \in Range(fields) :
               result.value[f].status \in {PASS, FAIL, ERROR, NEEDS_IMPROVEMENT}

\* C3 witness: an item whose status is outside the domain was parsed and its
\* field has a status of the domain.
C3_Witness ==
    /\ op \in ReviewOps
    /\ DecodedObject(response)
    /\ \E f \in Range(fields) :
          LET d == ReplyObject(response) IN
          /\ MatchingKeys(d, f) # {}
          /\ HasStatus(ItemOf(d, f))
          /\ StatusOf(ItemOf(d, f)) = JStr(S("passed", "mixed", FALSE))
          /\ result.value[f].status = FAIL

\* the upper-cased, trimmed form of an item's status
NormStatus(item) == Strip(Upper(StrOf(StatusOf(item))))

\* C4 as stated: an item whose upper-cased, trimmed status is neither PASS nor
\* FAIL gives its field status FAIL and a feedback that contains that status.
C4_AsStated ==
    (op \in ReviewOps /\ DecodedObject(response)) =>
        \A f \in Range(fields) :
            LET d == ReplyObject(response) IN
            (/\ MatchingKeys(d, f) # {}
             /\ HasStatus(ItemOf(d, f))
             /\ NormStatus(ItemOf(d, f)) \notin {PASS, FAIL}) =>
                /\ result.value[f].status = FAIL
                /\ result.value[f].feedback.pre # ""
                /\ result.value[f].feedback.val = NormStatus(ItemOf(d, f))

\* the statuses each parse_review lets through
Accepted(o) == IF o = "parse_review" THEN {PASS, FAIL, NEEDS_IMPROVEMENT} ELSE {PASS, FAIL}

\* C4 amended: an item whose upper-cased, trimmed status is neither PASS nor
\* FAIL (nor, for reviewer.py's parse_review, NEEDS_IMPROVEMENT) gives its
\* field status FAIL and a feedback that contains that upper-cased, trimmed status.
C4_InvalidStatusCoercion ==
    (op \in ReviewOps /\ DecodedObject(response)) =>
        \A f \in Range(fields) :
            LET d == ReplyObject(response) IN
            (/\ MatchingKeys(d, f) # {}
             /\ HasStatus(ItemOf(d, f))
             /\ NormStatus(ItemOf(d, f)) \notin Accepted(op)) =>
                /\ result.value[f].status = FAIL
                /\ result.value[f].feedback.pre # ""
                /\ result.value[f].feedback.val = NormStatus(ItemOf(d, f))

\* C4 witness: utils parse_review met the status "Passed" and answered FAIL
\* with a feedback naming PASSED.
C4_Witness ==
    /\ op = "utils_parse_review"
    /\ DecodedObject(response)
    /\ \E f \in Range(fields) :
          LET d == ReplyObject(response) IN
          /\ MatchingKeys(d, f) # {}
          /\ HasStatus(ItemOf(d, f))
          /\ StatusOf(ItemOf(d, f)) = JStr(S("passed", "mixed", FALSE))
          /\ result.value[f] = Entry(FAIL, Fb("Invalid status: ", S("passed", "upper", FALSE)))

(***************************************************************************)
(* Line Reconstructor: utils/ocr_engines.py                                *)
(* _convert_lines_to_reading_order.  A line is a dict with a text and,     *)
(* when hasBbox, a 'bbox' list.  A Python string is the sequence of its    *)
(* pieces: the texts and the separators "\n" and " ".                      *)
(***************************************************************************)
Line(txt, x, y, h) == [text |-> txt, hasBbox |-> TRUE, bbox |-> <<x, y, x + 1, y + h>>]
NoBboxLine(txt) == [text |-> txt, hasBbox |-> FALSE, bbox |-> <<>>]
BadBboxLine(txt, bbox) == [text |-> txt, hasBbox |-> TRUE, bbox |-> bbox]

Abs(n) == IF n < 0 THEN -n ELSE n

\* sep.join(parts)
RECURSIVE Join(_, _)
Join(sep, parts) ==
    IF parts = <<>> THEN <<>>
    ELSE IF Len(parts) = 1 THEN parts[1]
    ELSE parts[1] \o <<sep>> \o Join(sep, Tail(parts))

\* line.get('text', '')
TextOf(line) == <<line.text>>
Texts(boxes) == [i \in 1..Len(boxes) |-> TextOf(boxes[i])]

\* list.sort(key=...): a stable sort of entries [k1, k2, v] by the key (k1, k2)
KeyLess(a, b) == a.k1 < b.k1 \/ (a.k1 = b.k1 /\ a.k2 < b.k2)
RECURSIVE InsertStable(_, _)
InsertStable(x, sorted) ==
    IF sorted = <<>> THEN <<x>>
    ELSE IF KeyLess(x, sorted[Len(sorted)])
         THEN Append(InsertStable(x, SubSeq(sorted, 1, Len(sorted) - 1)),
                     sorted[Len(sorted)])
         ELSE Append(sorted, x)
RECURSIVE SortStable(_)
SortStable(s) ==
    IF s = <<>> THEN <<>>
    ELSE InsertStable(s[Len(s)], SortStable(SubSeq(s, 1, Len(s) - 1)))
Values(s) == [i \in 1..Len(s) |-> s[i].v]

\* line.get('bbox', [0,0,0,0])[i] (i counted from 1 here)
BboxGet(line, i) == IF line.hasBbox THEN line.bbox[i] ELSE 0
\* the sort keys index bbox[1] and bbox[0]: IndexError on a shorter list
KeyRaises(line) == line.hasBbox /\ Len(line.bbox) < 2
\* the list left in the order it was given
SortByTop_Unsorted(ld) == ld

\* line_data.sort(key=lambda line: bbox[1])
SortByTop(ld) ==
    Values(SortStable([i \in 1..Len(ld) |-> [k1 |-> BboxGet(ld[i], 2), k2 |-> 0, v |-> ld[i]]]))
\* line_data.sort(key=lambda line: (bbox[1], bbox[0]))
SortByTopLeft(ld) ==
    Values(SortStable([i \in 1..Len(ld) |->
                          [k1 |-> BboxGet(ld[i], 2), k2 |-> BboxGet(ld[i], 1), v |-> ld[i]]]))
\* current_line_boxes.sort(key=lambda b: b['bbox'][0])
SortByLeft(boxes) ==
    Values(SortStable([i \in 1..Len(boxes) |-> [k1 |-> boxes[i].bbox[1], k2 |-> 0, v |-> boxes[i]]]))
\* sorted(heights)
SortNumbers(ns) ==
    Values(SortStable([i \in 1..Len(ns) |-> [k1 |-> ns[i], k2 |-> 0, v |-> ns[i]]]))

\* lines 228-234: the heights loop.  `height` keeps its last value when a
\* bbox has not 4 entries; reading it before any assignment raises and the
\* bare except skips the line, as it does for a missing 'bbox'.
RECURSIVE HeightsLoop(_, _, _, _, _)
HeightsLoop(ld, i, heights, assigned, height) ==
    IF i > Len(ld) THEN heights
    ELSE IF ~ld[i].hasBbox THEN HeightsLoop(ld, i + 1, heights, assigned, height)
    ELSE LET four == Len(ld[i].bbox) = 4
             h == IF four THEN ld[i].bbox[4] - ld[i].bbox[2] ELSE height
             a == assigned \/ four
         IN IF ~a THEN HeightsLoop(ld, i + 1, heights, a, h)
            ELSE IF h > 0 THEN HeightsLoop(ld, i + 1, Append(heights, h), a, h)
            ELSE HeightsLoop(ld, i + 1, heights, a, h)

\* twice statistics.median(heights): the middle value, or the sum of the two
\* middle values whose mean the median is
Median2(heights) ==
    LET srt == SortNumbers(heights)
        n == Len(srt)
    IN IF n % 2 = 1 THEN 2 * srt[(n + 1) \div 2]
       ELSE srt[n \div 2] + srt[n \div 2 + 1]

RECURSIVE Pow2Floor(_)
Pow2Floor(d) == IF d < 2 THEN 1 ELSE 2 * Pow2Floor(d \div 2)

\* abs(box_top - current_line_ref_y) > y_tolerance, with y_tolerance the
\* double median_height * 0.7 and m2 twice the median.  0.7 is stored as a
\* double slightly below 7/10, so the product equals 7*median/10 rounded down
\* or to nearest: for an integer d = 7*median/10 the double is below d exactly
\* when 4*d > 7*2^k, 2^k the largest power of two not above d.
Exceeds(d, m2) ==
    \/ 20 * d > 7 * m2
    \/ 20 * d = 7 * m2 /\ 4 * d > 7 * Pow2Floor(d)

\* current_line_boxes.sort(key=xmin); " ".join(texts)
BandText(boxes) == Join(" ", Texts(SortByLeft(boxes)))

\* a clustering whose reference follows the last box placed in the band
ClusterStep_Chained(st, box, m2) ==
    IF ~box.hasBbox THEN st
    ELSE LET box_top == box.bbox[2] IN
         IF st.cur = <<>> \/ Exceeds(Abs(box_top - st.ref), m2)
         THEN [lines |-> IF st.cur # <<>> THEN Append(st.lines, BandText(st.cur))
                                          ELSE st.lines,
               cur |-> <<box>>,
               ref |-> box_top,
               trace |-> Append(st.trace, [box |-> box, anchor |-> st.ref,
                                           first |-> st.cur = <<>>, newBand |-> TRUE])]
         ELSE [lines |-> st.lines,
               cur |-> Append(st.cur, box),
               ref |-> box_top,
               trace |-> Append(st.trace, [box |-> box, anchor |-> st.ref,
                                           first |-> FALSE, newBand |-> FALSE])]

\* lines 247-255: one pass of the clustering loop over a box; st holds lines,
\* current_line_boxes, current_line_ref_y and, per box, what was decided
ClusterStep(st, box, m2) ==
    IF ~box.hasBbox THEN st
    ELSE LET box_top == box.bbox[2] IN
         IF st.cur = <<>> \/ Exceeds(Abs(box_top - st.ref), m2)
         THEN [lines |-> IF st.cur # <<>> THEN Append(st.lines, BandText(st.cur))
                                          ELSE st.lines,
               cur |-> <<box>>,
               ref |-> box_top,
               trace |-> Append(st.trace, [box |-> box, anchor |-> st.ref,
                                           first |-> st.cur = <<>>, newBand |-> TRUE])]
         ELSE [lines |-> st.lines,
               cur |-> Append(st.cur, box),
               ref |-> IF box_top < st.ref THEN box_top ELSE st.ref,
               trace |-> Append(st.trace, [box |-> box, anchor |-> st.ref,
                                           first |-> FALSE, newBand |-> FALSE])]

RECURSIVE ClusterLoop(_, _, _, _)
ClusterLoop(ld, i, st, m2) ==
    IF i > Len(ld) THEN st ELSE ClusterLoop(ld, i + 1, ClusterStep(st, ld[i], m2), m2)

\* a fallback that drops every line without a positive height
SimpleSort_SkipsDegenerate(ld) ==
    [kind |-> "return", out |-> <<>>, after |-> ld, m2 |-> 0, trace |-> <<>>]

\* lines 235-238: no positive height: sort by (ymin, xmin), one text per row
SimpleSort(ld) ==
    IF \E i \in 1..Len(ld) : KeyRaises(ld[i])
    THEN [kind |-> "raise", exc |-> "IndexError", after |-> ld]
    ELSE LET srt == SortByTopLeft(ld)
         IN [kind |-> "return", out |-> Join("\n", Texts(srt)), after |-> srt,
             m2 |-> 0, trace |-> <<>>]

\* _convert_lines_to_reading_order(line_data): the string returned (or the
\* exception raised) and the caller's list as the in-place sorts leave it
_convert_lines_to_reading_order(ld) ==
    IF ld = <<>> THEN [kind |-> "return", out |-> <<>>, after |-> ld, m2 |-> 0, trace |-> <<>>]
    ELSE LET heights == HeightsLoop(ld, 1, <<>>, FALSE, 0) IN
         IF heights = <<>> THEN SimpleSort(ld)
         ELSE IF \E i \in 1..Len(ld) : KeyRaises(ld[i])
              THEN [kind |-> "raise", exc |-> "IndexError", after |-> ld]
              ELSE LET m2 == Median2(heights)
                       srt == SortByTop(ld)
                       st == ClusterLoop(srt, 1, [lines |-> <<>>, cur |-> <<>>,
                                                   ref |-> -1, trace |-> <<>>], m2)
                       lines == IF st.cur # <<>> THEN Append(st.lines, BandText(st.cur))
                                ELSE st.lines
                   IN [kind |-> "return", out |-> Join("\n", lines), after |-> srt,
                       m2 |-> m2, trace |-> st.trace]

(***************************************************************************)
(* Inputs of the reconstructor: lines of height 10 on the tops 0, 7 and 8  *)
(* (0.7 x 10 = 7), lines of height 90 on the tops 0, 63 and 130            *)
(* (0.7 x 90 = 63), boxes without height, and malformed boxes.             *)
(***************************************************************************)
LineUniverse ==
    {Line(t, x, y, 10) : t \in {"a", "b"}, x \in {0, 1}, y \in {0, 7, 8}}
    \cup {Line("c", 0, 0, 90), Line("d", 1, 63, 90), Line("g", 0, 130, 90)}
    \cup {Line("e", 0, 0, 0), Line("f", 1, 8, 0)}
    \cup {NoBboxLine("m"), BadBboxLine("n", <<1, 7, 2>>), BadBboxLine("r", <<>>)}

MaxLines == 3

InitLines ==
    /\ AppIdle /\ PromptIdle /\ GradioIdle
    /\ line_data \in SeqsUpTo(LineUniverse, MaxLines)
    /\ lr = NoResult
    /\ ParseIdle /\ OcrIdle /\ StageIdle

ConvertLines ==
    /\ lr = NoResult
    /\ lr' = _convert_lines_to_reading_order(line_data)
    /\ UNCHANGED <<line_data, parseVars, ocrVars, stageVars, appVars, promptVars, grVars>>

NextLines == ConvertLines

SpecLines == InitLines /\ [][NextLines]_vars

(***************************************************************************)
(* Claims on the Line Reconstructor                                        *)
(***************************************************************************)
Converted == lr # NoResult /\ lr.kind = "return"
WellFormedLine(l) == l.hasBbox /\ Len(l.bbox) = 4
WellFormedLines(ld) == \A i \in 1..Len(ld) : WellFormedLine(ld[i])
LeftOf(l) == l.bbox[1]
TopOf(l) == l.bbox[2]
HeightOf(l) == l.bbox[4] - l.bbox[2]
IsPositive(n) == n > 0
PositiveHeights(ld) == SelectSeq([i \in 1..Len(ld) |-> HeightOf(ld[i])], IsPositive)
\* every ordering of a sequence
Orderings(s) == {[i \in 1..Len(s) |-> s[p[i]]] : p \in Permutations(1..Len(s))}
RowTop(ld, R) == CHOOSE y \in {TopOf(ld[i]) : i \in R} : \A i \in R : y <= TopOf(ld[i])

\* the lines with index in R1 are the upper row and the others the lower row:
\* row tops more than 0.7 x median apart, every line at most 0.7 x median
\* (strict: less than 0.7 x median) below the top of its row
TwoRows(ld, R1, strict) ==
    LET R2 == (1..Len(ld)) \ R1 IN
    /\ WellFormedLines(ld)
    /\ PositiveHeights(ld) # <<>>
    /\ R1 # {} /\ R2 # {}
    /\ LET m2 == Median2(PositiveHeights(ld))
           Near(d) == IF strict THEN 20 * d < 7 * m2 ELSE 20 * d <= 7 * m2
       IN /\ 20 * (RowTop(ld, R2) - RowTop(ld, R1)) > 7 * m2
          /\ \A i \in R1 : Near(TopOf(ld[i]) - RowTop(ld, R1))
          /\ \A i \in R2 : Near(TopOf(ld[i]) - RowTop(ld, R2))

\* the texts of the row R in an order of ascending xmin, joined by spaces
RowTexts(ld, R) ==
    {Join(" ", Texts(o)) : o \in {q \in UNION {Orderings(sub) :
             sub \in {t \in SeqsUpTo(Range(ld), Len(ld)) :
                        /\ Len(t) = Cardinality(R)
                        /\ \E f \in [1..Len(t) -> R] :
                              /\ \A i, j \in 1..Len(t) : i # j => f[i] # f[j]
                              /\ \A i \in 1..Len(t) : t[i] = ld[f[i]]}} :
          \A i \in 1..(Len(q) - 1) : LeftOf(q[i]) <= LeftOf(q[i + 1])}}

\* upper row first, then the lower row
TwoRowStrings(ld, R1) ==
    {a \o <<"\n">> \o b : a \in RowTexts(ld, R1), b \in RowTexts(ld, (1..Len(ld)) \ R1)}

SameForEveryOrdering(ld, out) ==
    \A q \in Orderings(ld) :
        LET r == _convert_lines_to_reading_order(q) IN r.kind = "return" /\ r.out = out

NoSharedCorner(ld) ==
    \A i, j \in 1..Len(ld) :
        (i # j /\ LeftOf(ld[i]) = LeftOf(ld[j]) /\ TopOf(ld[i]) = TopOf(ld[j])) => ld[i] = ld[j]

\* C6 as stated: lines forming two rows (row tops more than y_tolerance apart,
\* lines of a row within y_tolerance) give the same string in every input
\* order, the upper row first and each row's texts by ascending xmin.
C6_AsStated ==
    lr # NoResult =>
        \A R1 \in SUBSET (1..Len(line_data)) :
            TwoRows(line_data, R1, FALSE) =>
                /\ Converted
                /\ lr.out \in TwoRowStrings(line_data, R1)
                /\ SameForEveryOrdering(line_data, lr.out)

\* C6 amended: the same, for lines of which no two with different texts share
\* both xmin and ymin and whose distance to the top of their row is strictly
\* less than y_tolerance.
C6_PermutationInvariance ==
    lr # NoResult =>
        \A R1 \in SUBSET (1..Len(line_data)) :
            (TwoRows(line_data, R1, TRUE) /\ NoSharedCorner(line_data)) =>
                /\ Converted
                /\ lr.out \in TwoRowStrings(line_data, R1)
                /\ SameForEveryOrdering(line_data, lr.out)

\* C6 witness: three lines given lower row first and right before left came
\* out as "a b" over "a".
C6_Witness ==
    /\ Converted
    /\ line_data = <<Line("a", 0, 8, 10), Line("b", 1, 0, 10), Line("a", 0, 0, 10)>>
    /\ TwoRows(line_data, {2, 3}, TRUE) /\ NoSharedCorner(line_data)
    /\ lr.out \in TwoRowStrings(line_data, {2, 3})
    /\ lr.out = <<"a", " ", "b", "\n", "a">>

\* C7 as stated: a line joins the current band exactly when its ymin is at most
\* 0.7 x median away from the band's anchor ymin, and starts a new band exactly
\* when it is more than 0.7 x median away.
C7_AsStated ==
    Converted =>
        \A k \in 1..Len(lr.trace) :
            ~lr.trace[k].first =>
                (lr.trace[k].newBand <=>
                    20 * Abs(TopOf(lr.trace[k].box) - lr.trace[k].anchor) > 7 * lr.m2)

\* C8 as stated: the empty sequence and a single zero-area box both give the
\* empty string.
C8_AsStated ==
    (/\ Converted
     /\ \/ line_data = <<>>
        \/ Len(line_data) = 1 /\ WellFormedLine(line_data[1]) /\ HeightOf(line_data[1]) = 0)
    => lr.out = <<>>

\* C8 amended: the empty sequence gives the empty string; a single zero-area
\* box gives the text of that box.
C8_EmptyAndDegenerate ==
    lr # NoResult =>
        /\ line_data = <<>> => (Converted /\ lr.out = <<>>)
        /\ (Len(line_data) = 1 /\ WellFormedLine(line_data[1]) /\ HeightOf(line_data[1]) = 0)
              => (Converted /\ lr.out = TextOf(line_data[1]))

\* C8 witness: the single zero-area box "e" came out as "e".
C8_Witness ==
    /\ Converted
    /\ line_data = <<Line("e", 0, 0, 0)>>
    /\ lr.out = <<"e">>

(***************************************************************************)
(* OCR backends: utils/ocr_engines.py.  A backend call returns a list of   *)
(* lines or raises; what the engine and its libraries did is the outcome o *)
(* the call is made under.                                                 *)
(***************************************************************************)
\* _call_tesseract_ocr: the executable is missing (re-raised), any other
\* exception gives [], otherwise the lines built from the words
_call_tesseract_ocr(o) ==
    CASE o.t = "not_found" -> Raise("TesseractNotFoundError")
      [] o.t = "error" -> Return(<<>>)
      [] OTHER -> Return(o.lines)

\* _maybe_init_surya: raises when torch or surya is missing or the predictors
\* cannot be built (an exception of any type, re-raised)
_maybe_init_surya(o) ==
    IF ~o.torch_imported THEN Raise("ImportError")
    ELSE IF o.init # "ok" THEN Raise(o.init)
    ELSE Return(TRUE)

\* _call_surya_ocr: an exception while predicting gives []
_call_surya_ocr(o) ==
    IF _maybe_init_surya(o).kind = "raise" THEN _maybe_init_surya(o)
    ELSE IF o.t = "error" THEN Return(<<>>)
    ELSE Return(o.lines)

max_retries == 3
base_delay == 1

RECURSIVE Pow2(_)
Pow2(n) == IF n = 0 THEN 1 ELSE 2 * Pow2(n - 1)

\* a retry that waits the same time before every attempt
Delay_NoBackoff(attempt) == base_delay

\* delay = base_delay * (2 ** attempt)
Delay(attempt) == base_delay * Pow2(attempt)

\* an attempt of _call_google_vision_ocr: "lines" is a response with text,
\* "empty" a response without annotation; "api_error" is a response carrying
\* an error message, "call_raised" an exception out of text_detection, and
\* "request_raised" an exception while the request is built, before the call
Succeeded(o) == o.t \in {"lines", "empty"}
ApiCalled(o) == o.t # "request_raised"

(***************************************************************************)
(* OCR adapter: ocr_module.py extract_text.  A string is the sequence of   *)
(* its pieces; the strings extract_text builds itself start with their     *)
(* marker.                                                                 *)
(***************************************************************************)
None == [t |-> "none"]
OCR_ERROR == "OCR ERROR:"
OCR_INFO == "OCR INFO:"

\* an except chain that lacks the final `except Exception`
OnException_NoCatchAll(exc) ==
    CASE exc = "TesseractNotFoundError" -> Return(<<OCR_ERROR, " Tesseract not found.">>)
      [] exc = "ImportError" -> Return(<<OCR_ERROR, " Missing dependency">>)
      [] exc = "RuntimeError" -> Return(<<OCR_ERROR, " runtime error">>)
      [] exc = "NameError" -> Return(<<OCR_ERROR, " implementation not found">>)
      [] OTHER -> Raise(exc)

\* lines 34-43: the except clauses of extract_text
OnException(exc) ==
    CASE exc = "TesseractNotFoundError" -> Return(<<OCR_ERROR, " Tesseract not found.">>)
      [] exc = "ImportError" -> Return(<<OCR_ERROR, " Missing dependency">>)
      [] exc = "RuntimeError" -> Return(<<OCR_ERROR, " runtime error">>)
      [] exc = "NameError" -> Return(<<OCR_ERROR, " implementation not found">>)
      [] OTHER -> Return(<<OCR_ERROR, " Unexpected error">>)

\* ocr_engine.lower(): None has no such method
EngineLower(e) == IF e = None THEN Raise("AttributeError") ELSE Return(Lower(e))
Tesseract == S("tesseract", "lower", FALSE)
Surya == S("surya", "lower", FALSE)
Google == S("google", "lower", FALSE)
GoogleVision == S("google_vision", "lower", FALSE)

\* lines 28-32: what extract_text does with the list the backend returned
AfterBackend(ld) ==
    IF ld = <<>> THEN Return(<<OCR_INFO, " No text detected.">>)
    ELSE LET r == _convert_lines_to_reading_order(ld)
         IN IF r.kind = "raise" THEN OnException(r.exc) ELSE Return(r.out)

(***************************************************************************)
(* Inputs of the adapter: engine names in several spellings, the lists a   *)
(* backend can detect and the ways its libraries can fail.                 *)
(***************************************************************************)
EngineNames ==
    { Tesseract, S("tesseract", "mixed", FALSE), S("surya", "upper", FALSE),
      Google, S("google_vision", "mixed", FALSE),
      S("surya", "lower", TRUE), S("easyocr", "lower", FALSE), None }

DetectedLists ==
    { <<Line("a", 0, 0, 10)>>,
      <<Line("b", 1, 8, 10), Line("a", 0, 0, 10)>>,
      <<Line("b", 1, 0, 10), Line("a", 0, 0, 10)>> }

TesseractOutcomes ==
    {[t |-> "lines", lines |-> l] : l \in DetectedLists \cup {<<>>}}
    \cup {[t |-> "not_found"], [t |-> "error"]}

InitFailures == {"ImportError", "RuntimeError", "NameError", "OSError"}
SuryaOutcomes ==
    {[t |-> "lines", lines |-> l, torch_imported |-> TRUE, init |-> "ok"] :
        l \in DetectedLists \cup {<<>>}}
    \cup {[t |-> "error", torch_imported |-> TRUE, init |-> "ok"],
          [t |-> "lines", lines |-> <<>>, torch_imported |-> FALSE, init |-> "ok"]}
    \cup {[t |-> "lines", lines |-> <<>>, torch_imported |-> TRUE, init |-> f] :
             f \in InitFailures}

\* google_vision_imported, and whether the client can be initialised
GoogleSetups == [google_vision_imported : BOOLEAN, client : {"ok", "fails"}]
AttemptOutcomes ==
    {[t |-> "lines", lines |-> l] : l \in DetectedLists}
    \cup {[t |-> "empty"], [t |-> "api_error"], [t |-> "call_raised"],
          [t |-> "request_raised"]}

InitOcr ==
    /\ AppIdle /\ PromptIdle /\ GradioIdle
    /\ ocr_engine \in EngineNames
    /\ pc = "start"
    /\ backend = NoResult
    /\ calls = <<>>
    /\ sleeps = <<>>
    /\ ocr_text = NoResult
    /\ ParseIdle /\ LinesIdle /\ StageIdle

\* extract_text, lines 13-26: the engine is selected and its backend called.
\* _call_google_vision_ocr (lines 100-102) checks its library and client and
\* enters the retry loop.
CallBackend ==
    /\ pc = "start"
    /\ LET selected_engine == EngineLower(ocr_engine) IN
       IF selected_engine.kind = "raise"
       THEN /\ ocr_text' = OnException(selected_engine.exc)
            /\ pc' = "done"
            /\ UNCHANGED backend
       ELSE IF selected_engine.value = Tesseract
       THEN /\ \E o \in TesseractOutcomes : backend' = _call_tesseract_ocr(o)
            /\ pc' = "returned"
            /\ UNCHANGED ocr_text
       ELSE IF selected_engine.value = Surya
       THEN /\ \E o \in SuryaOutcomes : backend' = _call_surya_ocr(o)
            /\ pc' = "returned"
            /\ UNCHANGED ocr_text
       ELSE IF selected_engine.value \in {Google, GoogleVision}
       THEN /\ \E g \in GoogleSetups :
                  IF ~g.google_vision_imported
                  THEN backend' = Raise("ImportError") /\ pc' = "returned"
                  ELSE IF g.client = "fails"
                  THEN backend' = Raise("RuntimeError") /\ pc' = "returned"
                  ELSE backend' = NoResult /\ pc' = "google_attempt"
            /\ UNCHANGED ocr_text
       ELSE /\ ocr_text' = Return(<<OCR_ERROR, " Unknown engine">>)
            /\ pc' = "done"
            /\ UNCHANGED backend
    /\ UNCHANGED <<ocr_engine, calls, sleeps, parseVars, lineVars, stageVars, appVars, promptVars, grVars>>

\* _call_google_vision_ocr, lines 107-159: one pass of the retry loop
GoogleAttempt ==
    /\ pc = "google_attempt"
    /\ \E o \in AttemptOutcomes :
          LET attempt == Len(calls) IN
          /\ calls' = Append(calls, o)
          /\ IF Succeeded(o)
             THEN /\ backend' = Return(IF o.t = "lines" THEN o.lines ELSE <<>>)
                  /\ pc' = "returned"
                  /\ UNCHANGED sleeps
             ELSE IF attempt = max_retries - 1
             THEN /\ backend' = Return(<<>>)
                  /\ pc' = "returned"
                  /\ UNCHANGED sleeps
             ELSE /\ sleeps' = Append(sleeps, Delay(attempt))
                  /\ UNCHANGED <<backend, pc>>
    /\ UNCHANGED <<ocr_engine, ocr_text, parseVars, lineVars, stageVars, appVars, promptVars, grVars>>

\* extract_text, lines 28-43: the backend has returned or raised
FinishExtractText ==
    /\ pc = "returned"
    /\ pc' = "done"
    /\ IF backend.kind = "raise"
       THEN ocr_text' = OnException(backend.exc) /\ UNCHANGED line_data
       ELSE /\ ocr_text' = AfterBackend(backend.value)
            /\ line_data' = IF backend.value = <<>> THEN <<>>
                            ELSE _convert_lines_to_reading_order(backend.value).after
    /\ UNCHANGED <<ocr_engine, backend, calls, sleeps, parseVars, lr, stageVars, appVars, promptVars, grVars>>

NextOcr ==
    \/ CallBackend
    \/ GoogleAttempt
    \/ FinishExtractText

SpecOcr == InitOcr /\ [][NextOcr]_vars

(***************************************************************************)
(* Claims on the OCR adapter and the retry of the network backend          *)
(***************************************************************************)
BeginsWith(str, marker) == Len(str) >= 1 /\ str[1] = marker
KnownEngines == {Tesseract, Surya, Google, GoogleVision}
UnknownEngine == ocr_engine = None \/ Lower(ocr_engine) \notin KnownEngines

\* C9: extract_text always returns a string: the reconstructor's output when
\* the backend returned lines, an "OCR INFO:" string when it returned none, an
\* "OCR ERROR:" string when the engine is unknown or the backend raised.
C9_UniformErrorContract ==
    /\ pc # "done" => ocr_text = NoResult
    /\ pc = "done" =>
        /\ ocr_text.kind = "return"
        /\ (backend # NoResult /\ backend.kind = "return" /\ backend.value # <<>>) =>
              ocr_text.value = _convert_lines_to_reading_order(backend.value).out
        /\ (backend # NoResult /\ backend.kind = "return" /\ backend.value = <<>>) =>
              BeginsWith(ocr_text.value, OCR_INFO)
        /\ (UnknownEngine \/ (backend # NoResult /\ backend.kind = "raise")) =>
              BeginsWith(ocr_text.value, OCR_ERROR)

\* C9 witness: engine "Tesseract" detected "b" right of "a" on one row and
\* extract_text returned "a b".
C9_Witness ==
    /\ pc = "done"
    /\ ocr_engine = S("tesseract", "mixed", FALSE)
    /\ backend = Return(<<Line("b", 1, 0, 10), Line("a", 0, 0, 10)>>)
    /\ ocr_text = Return(<<"a", " ", "b">>)

FailedAttempts == {i \in 1..Len(calls) : ~Succeeded(calls[i])}

\* C10: the API is called at most 3 times; the waits after the first and the
\* second failure are 1s and 2s and there is none after the third, which
\* returns the empty list; a success ends the call at once.
C10_BoundedRetry ==
    /\ Cardinality({i \in 1..Len(calls) : ApiCalled(calls[i])}) <= 3
    /\ Len(calls) <= 3
    /\ sleeps = CASE Cardinality(FailedAttempts) = 0 -> <<>>
                  [] Cardinality(FailedAttempts) = 1 -> <<1>>
                  [] OTHER -> <<1, 2>>
    /\ Cardinality(FailedAttempts) = 3 =>
          (pc \in {"returned", "done"} /\ backend = Return(<<>>))
    /\ \A i \in 1..Len(calls) :
          Succeeded(calls[i]) =>
              /\ i = Len(calls)
              /\ pc \in {"returned", "done"}
              /\ backend = Return(IF calls[i].t = "lines" THEN calls[i].lines ELSE <<>>)

\* C10 witness: three attempts failed, 1s and 2s were slept, and the empty
\* list came back to extract_text, which reported that no text was detected.
C10_Witness ==
    /\ pc = "done"
    /\ Len(calls) = 3 /\ Cardinality(FailedAttempts) = 3
    /\ sleeps = <<1, 2>>
    /\ backend = Return(<<>>)
    /\ ocr_text.kind = "return" /\ BeginsWith(ocr_text.value, OCR_INFO)

(***************************************************************************)
(* Classification results: classifier.py                                   *)
(***************************************************************************)
K_doc_type == S("doc_type", "lower", FALSE)
K_fields == S("fields", "lower", FALSE)
Unknown == S("unknown", "lower", FALSE)
Classification(doc_type, flds) == [doc_type |-> doc_type, fields |-> flds]
ErrorClassification == Classification(S("error", "lower", FALSE), <<>>)

Name(w) == S(w, "mixed", FALSE)
DEFAULT_FIELDS ==
    [dt \in {S("invoice", "lower", FALSE), S("bank statement", "lower", FALSE),
             S("claim form", "lower", FALSE), S("contract", "lower", FALSE)} |->
        CASE dt.w = "invoice" ->
               <<Name("invoice #"), Name("date"), Name("total amount"), Name("vendor")>>
          [] dt.w = "bank statement" ->
               <<Name("account name"), Name("statement date"), Name("closing balance"),
                 Name("account number")>>
          [] dt.w = "claim form" ->
               <<Name("claim id"), Name("patient name"), Name("date of service"),
                 Name("total charges")>>
          [] OTHER ->
               <<Name("effective date"), Name("party a"), Name("party b"),
                 Name("termination clause")>>]

\* a name with a '}' in it
BraceName == S("a}", "mixed", FALSE)
\* the text of the value holds a '}': [\s\S]*?\} stops there, before the
\* closing brace of the object
HasCloseBrace(v) ==
    CASE v.t = "obj" -> TRUE
      [] v.t = "str" -> v.s.w = BraceName.w
      [] v.t = "arr" -> \E i \in 1..Len(v.items) :
                           \/ v.items[i].t = "obj"
                           \/ v.items[i].t = "str" /\ v.items[i].s.w = BraceName.w
      [] OTHER -> FALSE

\* lines 18-21: the fenced block, else an object that opens with "doc_type"
\* cut at its first '}'
ClassifyJsonMatch(resp) ==
    IF FencedMatch(resp).found THEN FencedMatch(resp)
    ELSE IF resp.wrap = "bare" /\ HasBraces(resp.body)
    THEN IF resp.body.t = "garbage" THEN Found(Garbage)
         ELSE IF resp.body.v.pairs = <<>> \/ resp.body.v.pairs[1].k # K_doc_type THEN NotFound
         ELSE IF \E i \in 1..Len(resp.body.v.pairs) : HasCloseBrace(resp.body.v.pairs[i].v)
              THEN Found(Garbage)
              ELSE Found(resp.body)
    ELSE NotFound

\* `key in data`: a key of a dict, an element of a list, a part of a string
\* (the strings here are single words: containment is equality); a number,
\* a boolean or None is not iterable
JsonIn(k, data) ==
    CASE data.t = "obj" -> Return(HasKey(data, k))
      [] data.t = "arr" -> Return(JStr(k) \in Range(data.items))
      [] data.t = "str" -> Return(data.s.w = k.w)
      [] OTHER -> Raise("TypeError")

\* data["fields"]: only a dict can be indexed by a string
JsonIndex(data, k) == IF data.t = "obj" THEN Return(GetKey(data, k)) ELSE Raise("TypeError")

FallThrough == [kind |-> "fallthrough"]
\* a comprehension that keeps the strings as they are
StringItems_Unstripped(items) == [i \in 1..Len(SelectSeq(items, isinstance_str)) |->
                                     StrOf(SelectSeq(items, isinstance_str)[i])]
\* [str(f).strip() for f in data["fields"] if isinstance(f, str)]
StringItems(items) == [i \in 1..Len(SelectSeq(items, isinstance_str)) |->
                          Strip(StrOf(SelectSeq(items, isinstance_str)[i]))]

\* lines 28-35: the decoded data gives the result, or control falls through
ClassifyData(data) ==
    IF JsonIn(K_doc_type, data).kind = "raise" THEN JsonIn(K_doc_type, data)
    ELSE IF ~JsonIn(K_doc_type, data).value \/ ~JsonIn(K_fields, data).value THEN FallThrough
    ELSE IF JsonIndex(data, K_fields).kind = "raise" THEN JsonIndex(data, K_fields)
    ELSE IF ~isinstance_list(GetKey(data, K_fields)) THEN FallThrough
    ELSE Return(Classification(Strip(Lower(StrOf(GetKey(data, K_doc_type)))),
                               StringItems(GetKey(data, K_fields).items)))

\* lines 23-38: the JSON path
ClassifyJsonPath(resp) ==
    LET json_match == ClassifyJsonMatch(resp) IN
    IF ~json_match.found THEN FallThrough
    ELSE IF json_loads(json_match.x).kind = "raise" THEN FallThrough
    ELSE ClassifyData(json_loads(json_match.x).value)

\* the text after `Fields:` : a JSON list, text in brackets that is no JSON,
\* or comma-separated names
FieldsList(body) == [t |-> "list", body |-> body]
FieldsCsv(items) == [t |-> "csv", items |-> items]
IsScalar(v) == v.t \in {"str", "num"}
NonEmpty(str) == str.w # ""
\* line 63: [str(f).strip() for f in fields if isinstance(f, (str, int, float)) and str(f).strip()]
CleanFields(items) ==
    LET kept == SelectSeq(items, IsScalar)
        strs == [i \in 1..Len(kept) |-> Strip(StrOf(kept[i]))]
    IN SelectSeq(strs, NonEmpty)

\* lines 49-67: the fields of the fallback
FallbackFields(line) ==
    CASE line.t = "absent" -> <<>>
      [] line.t = "list" ->
           IF line.body.t # "json" THEN <<>>
           ELSE IF isinstance_list(line.body.v) THEN CleanFields(line.body.v.items)
           ELSE <<>>
      [] OTHER -> CleanFields([i \in 1..Len(line.items) |-> JStr(Strip(line.items[i]))])

\* lines 42-75: the line-oriented fallback
ClassifyFallback(resp) ==
    LET doc_type == IF resp.docTypeLine.t = "absent" THEN Unknown
                    ELSE Lower(Strip(resp.docTypeLine.s))
        flds == FallbackFields(resp.fieldsLine)
    IN IF flds = <<>> /\ doc_type # Unknown /\ doc_type \in DOMAIN DEFAULT_FIELDS
       THEN Return(Classification(doc_type, DEFAULT_FIELDS[doc_type]))
       ELSE Return(Classification(doc_type, flds))

\* lines 16-75: the body of the outer try
parse_classification_body(resp) ==
    IF ClassifyJsonPath(resp) = FallThrough THEN ClassifyFallback(resp)
    ELSE ClassifyJsonPath(resp)

\* a parser without the outer `except Exception`
parse_classification_Unguarded(resp) == parse_classification_body(resp)

\* classifier.py parse_classification(response)
parse_classification(resp) ==
    Catch(parse_classification_body(resp), AnyException, Return(ErrorClassification))

(***************************************************************************)
(* Pipeline stages: classifier.py classify_and_suggest_fields,             *)
(* extractor.py extract_fields, reviewer.py review_fields.  llm_call       *)
(* returns the model's text, its own "Error: ..." string when the call     *)
(* fails, or None when the provider's message has no content.              *)
(***************************************************************************)
\* llm_module.py line 49: f"Error: Could not get response from LLM. Details: {e}"
LlmError == Reply("none", [t |-> "llm_error"])
IsStr(reply) == reply # None

\* print(f"...{resp[:200]}..."): None cannot be sliced
Slice(reply) == IF IsStr(reply) THEN Return(reply) ELSE Raise("TypeError")

\* a stage that returns the classification with the model's fields
classify_and_suggest_fields_SuggestedWins(user_fields, reply) ==
    IF Slice(reply).kind = "raise" THEN Slice(reply) ELSE parse_classification(reply)

\* classify_and_suggest_fields(text, user_fields) given the reply of its one
\* llm_call; with user fields the inner call classifies and the user's list
\* is returned
classify_and_suggest_fields(user_fields, reply) ==
    LET inner == IF Slice(reply).kind = "raise" THEN Slice(reply)
                 ELSE parse_classification(reply)
    IN IF user_fields # <<>>
       THEN IF inner.kind = "raise" THEN inner
            ELSE Return(Classification(inner.value.doc_type, user_fields))
       ELSE inner

ErrorNoText == JStr(S("error: no text", "mixed", FALSE))
\* a stage that calls the model whatever its input
ExtractNeedsCall_Always(txt, flds) == TRUE
\* extract_fields: lines 66-71 answer without a call (reply is unused then)
ExtractNeedsCall(txt, flds) == Truthy(txt) /\ flds # <<>>
extract_fields(txt, flds, reply) ==
    IF ~Truthy(txt) THEN Return([f \in Range(flds) |-> ErrorNoText])
    ELSE IF flds = <<>> THEN Return(<<>>)
    ELSE IF Slice(reply).kind = "raise" THEN Slice(reply)
    ELSE parse_extraction(reply, flds)

\* list(extracted_data.keys())
DictKeys(d) == [i \in 1..Len(d) |-> d[i].k]
\* review_fields: lines 89-94 answer without a call
ReviewNeedsCall(txt, d) == Truthy(txt) /\ d # <<>>
review_fields(txt, d, reply) ==
    IF ~Truthy(txt)
    THEN Return([f \in Range(DictKeys(d)) |-> Entry(ERROR, Fb("No text provided", EmptyStr))])
    ELSE IF d = <<>> THEN Return(<<>>)
    ELSE IF Slice(reply).kind = "raise" THEN Slice(reply)
    ELSE parse_review(reply, DictKeys(d))

(***************************************************************************)
(* Inputs of the stages                                                    *)
(***************************************************************************)
ReplyWithLines(wrap, body, docTypeLine, fieldsLine) ==
    [wrap |-> wrap, body |-> body, docTypeLine |-> docTypeLine, fieldsLine |-> fieldsLine]
DocTypeLine(str) == [t |-> "line", s |-> str]

Invoice == S("invoice", "mixed", TRUE)
FieldA == S("a", "mixed", TRUE)
ClassifyBodies ==
    { Valid(JObj(<<Pair(K_doc_type, JStr(Invoice)),
                   Pair(K_fields, JArr(<<JStr(FieldA), JNum, JStr(EmptyStr)>>))>>)),
      Valid(JObj(<<Pair(K_fields, JArr(<<JStr(FieldA)>>)), Pair(K_doc_type, JNull)>>)),
      Valid(JObj(<<Pair(K_doc_type, JStr(Invoice))>>)),
      Valid(JObj(<<Pair(K_doc_type, JStr(Invoice)), Pair(K_fields, JStr(FieldA))>>)),
      Valid(JArr(<<JStr(K_doc_type), JStr(K_fields)>>)),
      Valid(JArr(<<>>)),
      Valid(JNum),
      Garbage }
DocTypeLines ==
    { NoLine, DocTypeLine(Invoice), DocTypeLine(S("other", "mixed", FALSE)),
      DocTypeLine(S("bank statement", "upper", FALSE)) }
FieldsLines ==
    { NoLine, FieldsList(Valid(JArr(<<JStr(FieldA), JNum>>))), FieldsList(Garbage),
      FieldsList(Valid(JArr(<<JNull>>))), FieldsCsv(<<FieldA, EmptyStr, KeyB>>) }
ClassifyReplies ==
    {ReplyWithLines(w, b, dl, fl) :
        w \in {"fenced", "bare"}, b \in ClassifyBodies, dl \in DocTypeLines, fl \in FieldsLines}
    \cup {ReplyWithLines("none", Prose, dl, fl) : dl \in DocTypeLines, fl \in FieldsLines}
    \cup {LlmError, None}

StageItems == Items \cup {JNum, JArr(<<JStr(Ok)>>)}
StageObjects == {JObj(<<>>)} \cup {JObj(<<Pair(k, v)>>) : k \in Keys, v \in StageItems}
StageReplies ==
    {Reply(w, Valid(o)) : w \in {"fenced", "bare"}, o \in StageObjects}
    \cup {Reply("fenced", Valid(JArr(<<>>))), Reply("fenced", Garbage), Reply("bare", Garbage),
          Reply("none", Prose), LlmError, None}

Texts2 == {EmptyStr, S("doc", "lower", FALSE)}
ExtractedDicts ==
    {d \in SeqsUpTo({Pair(k, v) : k \in FieldNames, v \in {JNull, JStr(Ok)}}, MaxFields) :
        Injective(DictKeys(d))}

InitStage ==
    /\ AppIdle /\ PromptIdle /\ GradioIdle
    /\ text \in Texts2
    /\ fields \in FieldLists
    /\ extracted \in ExtractedDicts
    /\ llm_calls = 0
    /\ response = NoResult
    /\ op = "init"
    /\ result = NoResult
    /\ LinesIdle /\ OcrIdle

ClassifyAndSuggestFields ==
    /\ op = "init"
    /\ op' = "classify_and_suggest_fields"
    /\ \E reply \in ClassifyReplies :
          /\ response' = reply
          /\ result' = classify_and_suggest_fields(fields, reply)
    /\ llm_calls' = llm_calls + 1
    /\ UNCHANGED <<fields, text, extracted, lineVars, ocrVars, appVars, promptVars, grVars>>

ExtractFields ==
    /\ op = "init"
    /\ op' = "extract_fields"
    /\ IF ExtractNeedsCall(text, fields)
       THEN /\ \E reply \in StageReplies :
                  /\ response' = reply
                  /\ result' = extract_fields(text, fields, reply)
            /\ llm_calls' = llm_calls + 1
       ELSE /\ result' = extract_fields(text, fields, NoResult)
            /\ UNCHANGED <<response, llm_calls>>
    /\ UNCHANGED <<fields, text, extracted, lineVars, ocrVars, appVars, promptVars, grVars>>

ReviewFields ==
    /\ op = "init"
    /\ op' = "review_fields"
    /\ IF ReviewNeedsCall(text, extracted)
       THEN /\ \E reply \in StageReplies :
                  /\ response' = reply
                  /\ result' = review_fields(text, extracted, reply)
            /\ llm_calls' = llm_calls + 1
       ELSE /\ result' = review_fields(text, extracted, NoResult)
            /\ UNCHANGED <<response, llm_calls>>
    /\ UNCHANGED <<fields, text, extracted, lineVars, ocrVars, appVars, promptVars, grVars>>

NextStage ==
    \/ ClassifyAndSuggestFields
    \/ ExtractFields
    \/ ReviewFields

SpecStage == InitStage /\ [][NextStage]_vars

(***************************************************************************)
(* Claims on the stages                                                    *)
(***************************************************************************)
StageRan == op \in {"classify_and_suggest_fields", "extract_fields", "review_fields"}
\* the stage made no call, or llm_call gave a string: a reply of the model,
\* well-formed or not, or its own "Error: ..." string
StringOutcome == response = NoResult \/ IsStr(response)

IsString(x) == DOMAIN x = {"w", "c", "pad"}
IsJson(x) == "t" \in DOMAIN x /\ x.t \in {"null", "str", "num", "arr", "obj"}
\* {doc_type: lowercase string, fields: sequence of strings}
IsClassificationResult(v) ==
    /\ DOMAIN v = {"doc_type", "fields"}
    /\ IsString(v.doc_type) /\ Lower(v.doc_type) = v.doc_type
    /\ \A i \in 1..Len(v.fields) : IsString(v.fields[i])
\* string | null | array of string (the error sentinel is a string)
IsDeclaredValue(x) ==
    /\ IsJson(x)
    /\ \/ x.t \in {"null", "str"}
       \/ x.t = "arr" /\ \A i \in 1..Len(x.items) : x.items[i].t = "str"
IsReviewEntry(e, statuses) ==
    /\ DOMAIN e = {"status", "feedback"}
    /\ e.status \in statuses
    /\ DOMAIN e.feedback = {"pre", "val"} /\ IsString(e.feedback.val)

TruthyStr(v) == isinstance_str(v) /\ Truthy(v.s)
\* [str(f).strip() for f in data["fields"] if f and isinstance(f, str)]
UtilsStringItems(items) == [i \in 1..Len(SelectSeq(items, TruthyStr)) |->
                               Strip(StrOf(SelectSeq(items, TruthyStr)[i]))]
\* <string> or "unknown"
OrUnknown(str) == IF Truthy(str) THEN str ELSE Unknown

\* lines 141-148
UtilsClassifyData(data) ==
    IF ~isinstance_dict(data) THEN FallThrough
    ELSE IF ~HasKey(data, K_doc_type) \/ ~HasKey(data, K_fields) THEN FallThrough
    ELSE IF ~isinstance_list(GetKey(data, K_fields)) THEN FallThrough
    ELSE Return(Classification(OrUnknown(Strip(Lower(StrOf(GetKey(data, K_doc_type))))),
                               UtilsStringItems(GetKey(data, K_fields).items)))

\* lines 134-151: the JSON path
UtilsClassifyJsonPath(resp) ==
    LET json_match == ClassifyJsonMatch(resp) IN
    IF ~json_match.found THEN FallThrough
    ELSE IF json_loads(json_match.x).kind = "raise" THEN FallThrough
    ELSE UtilsClassifyData(json_loads(json_match.x).value)

\* lines 161-171: the fields of the fallback
UtilsFallbackFields(line) ==
    CASE line.t = "absent" -> <<>>
      [] line.t = "list" ->
           IF line.body.t # "json" THEN <<>>
           ELSE IF isinstance_list(line.body.v) THEN UtilsStringItems(line.body.v.items)
           ELSE <<>>
      [] OTHER -> SelectSeq([i \in 1..Len(line.items) |-> Strip(line.items[i])], NonEmpty)

\* a fallback that never takes the built-in lists
UtilsClassifyFallback_NoDefaults(resp) ==
    Return(Classification(IF resp.docTypeLine.t = "absent" THEN Unknown
                          ELSE Lower(Strip(resp.docTypeLine.s)),
                          UtilsFallbackFields(resp.fieldsLine)))

\* lines 155-182: the line-oriented fallback
UtilsClassifyFallback(resp) ==
    LET doc_type == IF resp.docTypeLine.t = "absent" THEN Unknown
                    ELSE Lower(Strip(resp.docTypeLine.s))
        flds == UtilsFallbackFields(resp.fieldsLine)
    IN IF flds = <<>> /\ doc_type # Unknown /\ doc_type \in DOMAIN DEFAULT_FIELDS
       THEN Return(Classification(doc_type, DEFAULT_FIELDS[doc_type]))
       ELSE Return(Classification(doc_type, flds))

\* utils/classifier_utils.py parse_classification(response)
utils_parse_classification(resp) ==
    Catch(IF UtilsClassifyJsonPath(resp) = FallThrough THEN UtilsClassifyFallback(resp)
          ELSE UtilsClassifyJsonPath(resp),
          AnyException, Return(ErrorClassification))

(***************************************************************************)
(* Inputs of the classification parsers: the classifier's replies and the  *)
(* replies that are exactly an object {doc_type: d, fields: [names]}       *)
(***************************************************************************)
Blank == S("", "lower", TRUE)
DocTypeValues == {Invoice, S("other", "lower", FALSE), EmptyStr, Blank}
FieldStrings == {Name("a"), FieldA, EmptyStr, Blank, BraceName}
NameLists == SeqsUpTo(FieldStrings, MaxFields)
JNames(names) == JArr([i \in 1..Len(names) |-> JStr(names[i])])
ExactObject(d, names, typeFirst) ==
    IF typeFirst
    THEN JObj(<<Pair(K_doc_type, JStr(d)), Pair(K_fields, JNames(names))>>)
    ELSE JObj(<<Pair(K_fields, JNames(names)), Pair(K_doc_type, JStr(d))>>)
ExactReplies ==
    {Reply(w, Valid(ExactObject(d, names, tf))) :
        w \in {"fenced", "bare"}, d \in DocTypeValues, names \in NameLists, tf \in BOOLEAN}

InitClassify ==
    /\ AppIdle /\ PromptIdle /\ GradioIdle
    /\ response \in (ClassifyReplies \ {None}) \cup ExactReplies
    /\ op = "init"
    /\ result = NoResult
    /\ fields = <<>>
    /\ LinesIdle /\ OcrIdle /\ StageIdle

ParseClassification ==
    /\ op = "init"
    /\ op' = "parse_classification"
    /\ result' = parse_classification(response)
    /\ UNCHANGED <<fields, response, lineVars, ocrVars, stageVars, appVars, promptVars, grVars>>

UtilsParseClassification ==
    /\ op = "init"
    /\ op' = "utils_parse_classification"
    /\ result' = utils_parse_classification(response)
    /\ UNCHANGED <<fields, response, lineVars, ocrVars, stageVars, appVars, promptVars, grVars>>

NextClassify ==
    \/ ParseClassification
    \/ UtilsParseClassification

SpecClassify == InitClassify /\ [][NextClassify]_vars

(***************************************************************************)
(* Claims on the classifier stage                                          *)
(***************************************************************************)
ClassifyRan == op = "classify_and_suggest_fields"

\* C11 as stated: called with no text (classify_and_suggest_fields takes no
\* image), the classifier returns {doc_type: "error", fields: []} at once
\* and makes no LLM call.
C11_AsStated ==
    (ClassifyRan /\ ~Truthy(text)) =>
        /\ llm_calls = 0
        /\ result = Return(ErrorClassification)

ClassifyParsed == op \in {"parse_classification", "utils_parse_classification"}
ExactReply == response \in ExactReplies
ExactDocType == GetKey(response.body.v, K_doc_type).s
ExactNames == [i \in 1..Len(GetKey(response.body.v, K_fields).items) |->
                  GetKey(response.body.v, K_fields).items[i].s]
TypeFirst == response.body.v.pairs[1].k = K_doc_type
NoCloseBrace == \A i \in 1..Len(response.body.v.pairs) : ~HasCloseBrace(response.body.v.pairs[i].v)
Stripped(names) == [i \in 1..Len(names) |-> Strip(names[i])]

\* C12 as stated: for a response that is exactly a JSON object
\* {doc_type: d, fields: [strings]}, parse_classification returns
\* {doc_type: d lower-cased and trimmed, fields: the same strings in the same
\* order}, and so it does for the same object in a ```json fenced block.
C12_AsStated ==
    (ClassifyParsed /\ ExactReply) =>
        result = Return(Classification(Strip(Lower(ExactDocType)), ExactNames))

\* C12 amended: for the object in a ```json fenced block, and for a response
\* that is exactly the object when doc_type is its first key and none of its
\* strings holds a '}', parse_classification returns doc_type lower-cased and
\* trimmed and the strings trimmed, in the same order; the variant of
\* utils/classifier_utils.py gives "unknown" for a doc_type that is empty
\* after trimming and leaves out the empty strings.
C12_JsonRoundTrip ==
    (ClassifyParsed /\ ExactReply /\ (response.wrap = "fenced" \/ (TypeFirst /\ NoCloseBrace))) =>
        /\ op = "parse_classification" =>
              result = Return(Classification(Strip(Lower(ExactDocType)), Stripped(ExactNames)))
        /\ op = "utils_parse_classification" =>
              result = Return(Classification(OrUnknown(Strip(Lower(ExactDocType))),
                                             Stripped(SelectSeq(ExactNames, Truthy))))

\* C12 witness: the bare object {"doc_type": " Invoice ", "fields": [" A ", "A"]}
\* was parsed to {invoice, [A, A]}, and the fenced reply parses to the same.
C12_Witness ==
    /\ op = "parse_classification"
    /\ response = Reply("bare", Valid(ExactObject(Invoice, <<FieldA, Name("a")>>, TRUE)))
    /\ result = Return(Classification(S("invoice", "lower", FALSE), <<Name("a"), Name("a")>>))
    /\ parse_classification(Reply("fenced", response.body)) = result

\* the JSON path neither returned nor raised: the fallback ran
JsonPathFellThrough ==
    \/ op = "parse_classification" /\ ClassifyJsonPath(response) = FallThrough
    \/ op = "utils_parse_classification" /\ UtilsClassifyJsonPath(response) = FallThrough
\* no `Fields:` line, brackets that hold no JSON, or a list without a name
UnparsedFieldsLines == {NoLine, FieldsList(Garbage), FieldsList(Valid(JArr(<<JNull>>)))}
\* the value of the `Doc Type:` line, "unknown" without one
LineDocType == IF response.docTypeLine = NoLine THEN Unknown
               ELSE Lower(Strip(response.docTypeLine.s))
CanonicalTypes == {S("invoice", "lower", FALSE), S("bank statement", "lower", FALSE),
                   S("claim form", "lower", FALSE), S("contract", "lower", FALSE)}

\* C13: when the JSON path fails and the fallback finds a `Doc Type:` value
\* that is one of invoice, bank statement, claim form, contract while no
\* fields are parsed, parse_classification returns that type's built-in
\* default fields; for any other doc_type without parsed fields it returns
\* an empty list.
C13_FallbackDefault ==
    (ClassifyParsed /\ JsonPathFellThrough /\ response.fieldsLine \in UnparsedFieldsLines) =>
        /\ result.kind = "return"
        /\ result.value.doc_type = LineDocType
        /\ LineDocType \in CanonicalTypes => result.value.fields = DEFAULT_FIELDS[LineDocType]
        /\ LineDocType \notin CanonicalTypes => result.value.fields = <<>>

\* C13 witness: malformed text in braces, `Doc Type: BANK STATEMENT` and
\* `Fields: [a, b]` gave the four default fields of a bank statement.
C13_Witness ==
    /\ op = "utils_parse_classification"
    /\ response = ReplyWithLines("bare", Garbage,
                                 DocTypeLine(S("bank statement", "upper", FALSE)),
                                 FieldsList(Garbage))
    /\ result = Return(Classification(S("bank statement", "lower", FALSE),
                  <<Name("account name"), Name("statement date"), Name("closing balance"),
                    Name("account number")>>))

ExtractDecodedObject ==
    /\ ExtractJsonMatch(response).found
    /\ ExtractJsonMatch(response).x.t = "json"
    /\ ExtractJsonMatch(response).x.v.t = "obj"
ExtractObject == ExtractJsonMatch(response).x.v

\* C15: for a reply that parses to a JSON object, parse_extraction gives each
\* requested field the value of the reply key with the same trimmed
\* lower-case form; of several such keys the one that comes last in the
\* reply gives the value, also when an earlier key is spelt exactly as the
\* field; a field without such a key stays null.
C15_LookupSemantics ==
    (op \in ExtractionOps /\ ExtractDecodedObject) =>
        /\ result.kind = "return"
        /\ \A f \in Range(fields) :
              /\ MatchingKeys(ExtractObject, f) = {} => result.value[f] = JNull
              /\ MatchingKeys(ExtractObject, f) # {} =>
                    result.value[f] = ItemOf(ExtractObject, f)

\* C15 witness: the reply {"A ": "v", "a": {...}} was parsed for the fields
\* "A " and "b": "A ", a key of the reply, got the value of the later key
\* "a", and "b" stayed null.
C15_Witness ==
    /\ op = "parse_extraction"
    /\ fields = <<KeyAUp, KeyB>>
    /\ response = Reply("fenced", Valid(JObj(<<Pair(KeyAUp, JStr(S("v", "lower", FALSE))),
                                               Pair(KeyA, ReviewObj(FAIL, Ok))>>)))
    /\ HasKey(ExtractObject, KeyAUp)
    /\ result = Return([f \in {KeyAUp, KeyB} |->
                           IF f = KeyAUp THEN ReviewObj(FAIL, Ok) ELSE JNull])

(***************************************************************************)
(* Claims on the input checks of the extractor and the reviewer            *)
(***************************************************************************)
NoCall == llm_calls = 0 /\ response = NoResult

\* C16: extract_fields returns the empty map for an empty field list and,
\* without text, a map giving every requested field the error sentinel;
\* review_fields returns the empty map for empty extracted data and, without
\* text, {status: ERROR, ...} for every field; in the four cases the LLM is
\* not called and nothing is raised.
C16_InputContract ==
    /\ (op = "extract_fields" /\ fields = <<>>) =>
          NoCall /\ result = Return(<<>>)
    /\ (op = "extract_fields" /\ ~Truthy(text)) =>
          NoCall /\ result = Return([f \in Range(fields) |-> ErrorNoText])
    /\ (op = "review_fields" /\ extracted = <<>>) =>
          NoCall /\ result = Return(<<>>)
    /\ (op = "review_fields" /\ ~Truthy(text)) =>
          /\ NoCall
          /\ result.kind = "return"
          /\ DOMAIN result.value = Range(DictKeys(extracted))
          /\ \A f \in DOMAIN result.value :
                /\ result.value[f].status = ERROR
                /\ result.value[f].feedback = Fb("No text provided", EmptyStr)

\* C16 witness: review_fields was called without text on two extracted
\* fields and returned ERROR for both without a call.
C16_Witness ==
    /\ op = "review_fields"
    /\ ~Truthy(text)
    /\ Len(extracted) = 2
    /\ NoCall
    /\ \A f \in Range(DictKeys(extracted)) : result.value[f].status = ERROR

(***************************************************************************)
(* Claims on the reconstructor's effect on its argument                    *)
(***************************************************************************)
\* C19 as stated: after _convert_lines_to_reading_order returns, the caller's
\* list holds the same lines in the same order as before the call, and a
\* second call on it gives the same output.
C19_AsStated ==
    Converted =>
        /\ lr.after = line_data
        /\ _convert_lines_to_reading_order(lr.after).kind = "return"
        /\ _convert_lines_to_reading_order(lr.after).out = lr.out

\* the reconstructor returned or raised
Called == lr # NoResult
\* the input without its malformed lines
WellFormedOnly(ld) == SelectSeq(ld, WellFormedLine)

\* C20 as stated: whatever lines without a bbox or with a bbox of the wrong
\* length are mixed into the input, _convert_lines_to_reading_order does not
\* raise and returns what it returns for the well-formed lines alone.
C20_AsStated ==
    Called =>
        /\ lr.kind = "return"
        /\ lr.out = _convert_lines_to_reading_order(WellFormedOnly(line_data)).out

(***************************************************************************)
(* Orchestrator: app.py.  The script runs from top to bottom on every      *)
(* event; one run reads st.session_state.step, executes the branch of that *)
(* step with the stage call in it, and ends at st.rerun() or at the end of *)
(* the script.  Each action below is one such run.                         *)
(***************************************************************************)
\* lines 34-49: the session state of a new session
InitialSession ==
    [step |-> 0, uploaded_file_name |-> None, image_bytes |-> None, ocr_text |-> None,
     classification_result |-> None, selected_fields |-> <<>>,
     extraction_result |-> None, review_result |-> None]

\* a reset that goes back one step and keeps the rest
reset_app_state_BackOne(ss) == [ss EXCEPT !.step = ss.step - 1]

\* reset_app_state, lines 52-68
reset_app_state(ss) == InitialSession

\* the pieces of text that hold the word ERROR
PiecesWithERROR == {OCR_ERROR, "ERROR CODE 7"}
\* "ERROR" in ocr_text_result
ContainsERROR(str) == \E i \in 1..Len(str) : str[i] \in PiecesWithERROR
\* bool(x) for the bytes and strings of the session: None and the empty
\* value are falsy
\* a value of the session that is not None: a string (the sequence of its
\* pieces), the bytes of a file, a dict
Str(pieces) == [t |-> "str", pieces |-> pieces]
Bytes(n) == [t |-> "bytes", len |-> n]
Dict(d) == [t |-> "dict", d |-> d]
NonEmptyStr(pieces) == \E i \in 1..Len(pieces) : pieces[i] # ""
TextTruthy(str) == str # None /\ NonEmptyStr(str.pieces)
BytesTruthy(bytes) == bytes # None /\ bytes.len > 0

\* extract_text(image_bytes): ocr_module.py with its default engine 'surya'
extract_text_surya(o) ==
    LET returned == _call_surya_ocr(o)
    IN IF returned.kind = "raise" THEN OnException(returned.exc)
       ELSE AfterBackend(returned.value)

\* a session whose text never reaches the stages
StageText_Empty(str) == EmptyStr

\* the text a stage is called with; a stage tests it for emptiness only and
\* puts it in the prompt
StageText(str) == IF TextTruthy(str) THEN S("ocr text", "mixed", FALSE) ELSE EmptyStr

\* the dict extract_fields returned, in its insertion order: that of the
\* requested fields
DictOf(flds, values) == [i \in 1..Len(flds) |-> Pair(flds[i], values[flds[i]])]

\* json.dumps(extraction_result, indent=2): the text of a JSON object with
\* the dict's keys in their order and its values, indented by two spaces
json_dumps(d) == [t |-> "json_text", indent |-> 2, v |-> JObj(d)]

\* gradio_app.py prepare_download_json: no file without extraction data,
\* else the file the dumped text is written to
prepare_download_json(extraction_result) ==
    IF extraction_result = None \/ extraction_result.d = <<>> THEN None
    ELSE [t |-> "file", path |-> "temp_extracted_data.json",
          content |-> json_dumps(extraction_result.d)]

\* the fields ticked in the form, in the order of the suggested fields
Ticked(suggested, I) ==
    LET n == Cardinality(I)
        at == CHOOSE g \in [1..n -> I] : \A j, k \in 1..n : j < k => g[j] < g[k]
    IN [k \in 1..n |-> suggested[at[k]]]

\* one entry of the log of stage calls
Invocation(stage, n, reply) == [stage |-> stage, llm_calls |-> n, reply |-> reply]

(***************************************************************************)
(* Inputs of the orchestrator: what the OCR backend detects and what the   *)
(* model replies to each stage                                             *)
(***************************************************************************)
InvoiceNo == Name("invoice #")
TotalName == Name("total")
INV1 == S("inv-1", "upper", FALSE)
TenDollars == S("$10", "lower", FALSE)

ScenarioLines ==
    <<Line("INVOICE", 0, 0, 10), Line("Number: INV-1", 0, 20, 10), Line("Total: $10", 0, 40, 10)>>
AppLines ==
    { ScenarioLines,
      <<Line("Total: $10", 0, 40, 10), Line("INVOICE", 0, 0, 10), Line("Number: INV-1", 0, 20, 10)>>,
      <<Line("ERROR CODE 7", 0, 0, 10)>>,
      <<Line("", 0, 0, 10)>>,
      <<>> }
AppOcrOutcomes ==
    {[t |-> "lines", lines |-> l, torch_imported |-> TRUE, init |-> "ok"] : l \in AppLines}
    \cup {[t |-> "lines", lines |-> <<>>, torch_imported |-> FALSE, init |-> "ok"]}

ScenarioClassifyReply ==
    Reply("bare", Valid(ExactObject(S("invoice", "lower", FALSE), <<InvoiceNo, TotalName>>, TRUE)))
AppClassifyReplies ==
    { ScenarioClassifyReply,
      ReplyWithLines("none", Prose, DocTypeLine(Invoice), NoLine),
      Reply("none", Prose),
      Reply("fenced", Valid(JNum)),
      LlmError, None }

ScenarioExtractReply ==
    Reply("bare", Valid(JObj(<<Pair(InvoiceNo, JStr(INV1)), Pair(TotalName, JStr(TenDollars))>>)))
AppExtractReplies ==
    { ScenarioExtractReply,
      Reply("fenced", Valid(JObj(<<Pair(TotalName, JStr(TenDollars))>>))),
      LlmError, None }

ScenarioReviewReply ==
    Reply("bare", Valid(JObj(<<Pair(InvoiceNo, ReviewObj(PASS, Ok)),
                               Pair(TotalName, ReviewObj(PASS, Ok))>>)))
AppReviewReplies ==
    { ScenarioReviewReply,
      Reply("fenced", Valid(JObj(<<Pair(TotalName, ReviewObj(FAIL, Ok))>>))),
      LlmError, None }
UploadedBytes == {Bytes(1), Bytes(0)}

InitApp ==
    /\ session_state = InitialSession
    /\ invocations = <<>>
    /\ final_json = NoResult
    /\ ParseIdle /\ LinesIdle /\ OcrIdle /\ StageIdle /\ PromptIdle /\ GradioIdle

\* lines 93-105: a file is uploaded at step 0
Upload ==
    /\ session_state.step = 0
    /\ \E bytes \in UploadedBytes :
          session_state' = [session_state EXCEPT !.uploaded_file_name = Str(<<"invoice.png">>),
                                                 !.image_bytes = bytes, !.step = 1]
    /\ invocations' = <<>>
    /\ UNCHANGED <<final_json, parseVars, lineVars, ocrVars, stageVars, promptVars, grVars>>

\* line 113: the Reset Agent button, enabled after step 0
ResetAgent ==
    /\ session_state.step # 0
    /\ session_state' = reset_app_state(session_state)
    /\ final_json' = NoResult
    /\ UNCHANGED <<invocations, parseVars, lineVars, ocrVars, stageVars, promptVars, grVars>>

\* lines 146-164: step 1 -> 2, OCR
PerformOCR ==
    /\ session_state.step = 1 /\ BytesTruthy(session_state.image_bytes)
    /\ \E o \in AppOcrOutcomes :
          LET ocr_text_result == extract_text_surya(o) IN
          /\ invocations' = Append(invocations, Invocation("OCR", 0, o))
          /\ session_state' =
                IF ocr_text_result.kind = "raise" \/ ContainsERROR(ocr_text_result.value)
                THEN reset_app_state(session_state)
                ELSE [session_state EXCEPT !.ocr_text = Str(ocr_text_result.value), !.step = 2]
    /\ UNCHANGED <<final_json, parseVars, lineVars, ocrVars, stageVars, promptVars, grVars>>

\* lines 167-185: step 2 -> 3, classification
Classify ==
    /\ session_state.step = 2 /\ TextTruthy(session_state.ocr_text)
    /\ \E reply \in AppClassifyReplies :
          LET classification_res == classify_and_suggest_fields(<<>>, reply) IN
          /\ invocations' = Append(invocations, Invocation("Classify", 1, reply))
          /\ session_state' =
                IF \/ classification_res.kind = "raise"
                   \/ classification_res.value.doc_type = ErrorClassification.doc_type
                THEN reset_app_state(session_state)
                ELSE [session_state EXCEPT
                         !.classification_result = classification_res.value,
                         !.selected_fields = classification_res.value.fields,
                         !.step = 3]
    /\ UNCHANGED <<final_json, parseVars, lineVars, ocrVars, stageVars, promptVars, grVars>>

\* lines 188-225: step 3, the form is submitted with at least one field
\* ticked (one checkbox per suggested field, keyed by the field)
ConfirmFields ==
    /\ session_state.step = 3
    /\ session_state.classification_result # None
    /\ LET suggested_fields == session_state.classification_result.fields IN
       /\ Injective(suggested_fields)
       /\ \E I \in SUBSET (1..Len(suggested_fields)) :
             /\ I # {}
             /\ session_state' = [session_state EXCEPT
                                     !.selected_fields = Ticked(suggested_fields, I),
                                     !.extraction_result = None,
                                     !.review_result = None,
                                     !.step = 4]
    /\ UNCHANGED <<invocations, final_json, parseVars, lineVars, ocrVars, stageVars, promptVars, grVars>>

\* lines 228-243: step 4 -> 5, extraction
Extract ==
    /\ session_state.step = 4
    /\ TextTruthy(session_state.ocr_text) /\ session_state.selected_fields # <<>>
    /\ \E reply \in AppExtractReplies :
          LET extraction_res == extract_fields(StageText(session_state.ocr_text),
                                               session_state.selected_fields, reply)
              n == IF ExtractNeedsCall(StageText(session_state.ocr_text),
                                       session_state.selected_fields) THEN 1 ELSE 0
          IN
          /\ invocations' = Append(invocations, Invocation("Extract", n, reply))
          /\ session_state' =
                IF extraction_res.kind = "raise" THEN reset_app_state(session_state)
                ELSE [session_state EXCEPT
                         !.extraction_result =
                             Dict(DictOf(session_state.selected_fields, extraction_res.value)),
                         !.step = 5]
    /\ UNCHANGED <<final_json, parseVars, lineVars, ocrVars, stageVars, promptVars, grVars>>

\* lines 246-269: step 5, the extraction is shown and the review set up
ShowExtraction ==
    /\ session_state.step = 5
    /\ session_state' =
          IF session_state.extraction_result # None
          THEN [session_state EXCEPT !.step = 6]
          ELSE reset_app_state(session_state)
    /\ UNCHANGED <<invocations, final_json, parseVars, lineVars, ocrVars, stageVars, promptVars, grVars>>

\* lines 272-307: step 6 -> 7, the pause and the review
Review ==
    /\ session_state.step = 6
    /\ IF TextTruthy(session_state.ocr_text) /\ session_state.extraction_result # None
       THEN \E reply \in AppReviewReplies :
               LET review_res == review_fields(StageText(session_state.ocr_text),
                                               session_state.extraction_result.d, reply)
                   n == IF ReviewNeedsCall(StageText(session_state.ocr_text),
                                           session_state.extraction_result.d) THEN 1 ELSE 0
               IN
               /\ invocations' = Append(invocations, Invocation("Review", n, reply))
               /\ session_state' =
                     IF review_res.kind = "raise" THEN reset_app_state(session_state)
                     ELSE [session_state EXCEPT !.review_result = Dict(review_res.value),
                                                !.step = 7]
       ELSE /\ session_state' = reset_app_state(session_state)
            /\ UNCHANGED invocations
    /\ UNCHANGED <<final_json, parseVars, lineVars, ocrVars, stageVars, promptVars, grVars>>

\* lines 310-345: step 7, the review table and the download button
ShowReview ==
    /\ session_state.step = 7
    /\ IF session_state.review_result # None /\ session_state.extraction_result # None
       THEN final_json' = json_dumps(session_state.extraction_result.d)
       ELSE UNCHANGED final_json
    /\ UNCHANGED <<session_state, invocations, parseVars, lineVars, ocrVars, stageVars, promptVars, grVars>>

NextApp ==
    \/ Upload
    \/ ResetAgent
    \/ PerformOCR
    \/ Classify
    \/ ConfirmFields
    \/ Extract
    \/ ShowExtraction
    \/ Review
    \/ ShowReview

SpecApp == InitApp /\ [][NextApp]_vars

\* the script reruns by itself after every step it completes (st.rerun()),
\* and the user of the form confirms a selection
SpecAppLive ==
    /\ SpecApp
    /\ WF_vars(PerformOCR) /\ WF_vars(Classify) /\ WF_vars(ConfirmFields)
    /\ WF_vars(Extract) /\ WF_vars(ShowExtraction) /\ WF_vars(Review) /\ WF_vars(ShowReview)

(***************************************************************************)
(* Claims on the orchestrator                                              *)
(***************************************************************************)
StageOrder == <<"OCR", "Classify", "Extract", "Review">>
StagesOf(log) == [i \in 1..Len(log) |-> log[i].stage]
IsPrefix(s, t) == Len(s) <= Len(t) /\ \A i \in 1..Len(s) : s[i] = t[i]
\* one run of the script: the step stays, goes up by one or returns to 0,
\* and at most one stage is called
StepMove ==
    /\ session_state'.step \in {session_state.step, session_state.step + 1, 0}
    /\ invocations' # <<>> => Len(invocations') <= Len(invocations) + 1

\* C17: between an upload and the next reset the stages are called in the
\* order OCR, Classify, Extract, Review, each at most once and one per run
\* of the script; the step only goes up by one or returns to 0; a stage call
\* makes at most one LLM call.
C17_StageOrdering ==
    /\ [](/\ IsPrefix(StagesOf(invocations), StageOrder)
          /\ \A i \in 1..Len(invocations) : invocations[i].llm_calls <= 1)
    /\ [][StepMove]_vars

\* C17 witness: a run reached step 7 after the four stages, the three LLM
\* stages with one call each.
C17_Witness ==
    /\ session_state.step = 7
    /\ StagesOf(invocations) = StageOrder
    /\ invocations[1].llm_calls = 0
    /\ \A i \in 2..4 : invocations[i].llm_calls = 1

ScenarioText == <<"INVOICE", "\n", "Number: INV-1", "\n", "Total: $10">>
ScenarioExtraction == <<Pair(InvoiceNo, JStr(INV1)), Pair(TotalName, JStr(TenDollars))>>
\* a file was uploaded and nothing has run on it yet
ScenarioStart ==
    /\ session_state.step = 1 /\ BytesTruthy(session_state.image_bytes)
    /\ invocations = <<>>
\* whatever has happened since the upload is what the scenario says
OnScenario ==
    /\ session_state.step >= 1 /\ BytesTruthy(session_state.image_bytes)
    /\ Len(invocations) >= 1 =>
          extract_text_surya(invocations[1].reply) = Return(ScenarioText)
    /\ Len(invocations) >= 2 => invocations[2].reply = ScenarioClassifyReply
    /\ session_state.step >= 4 => session_state.selected_fields = <<InvoiceNo, TotalName>>
    /\ Len(invocations) >= 3 => invocations[3].reply = ScenarioExtractReply
    /\ Len(invocations) >= 4 => invocations[4].reply = ScenarioReviewReply
ScenarioDone ==
    /\ session_state.step = 7
    /\ session_state.classification_result =
          Classification(S("invoice", "lower", FALSE), <<InvoiceNo, TotalName>>)
    /\ session_state.extraction_result = Dict(ScenarioExtraction)
    /\ session_state.review_result =
          Dict([f \in {InvoiceNo, TotalName} |-> Entry(PASS, Fb("", Ok))])
    /\ final_json = json_dumps(ScenarioExtraction)
    /\ prepare_download_json(session_state.extraction_result).content = final_json

\* C18: when the OCR backend returns the lines of "INVOICE / Number: INV-1 /
\* Total: $10", the classifier reply is {invoice, [Invoice #, Total]}, the
\* user confirms both fields, the extractor reply is {Invoice #: INV-1,
\* Total: $10} and the reviewer reply marks both PASS, the session reaches
\* step 7 with both fields PASS and the download is the JSON object
\* {"Invoice #": "INV-1", "Total": "$10"}, without review status.
C18_EndToEnd == ScenarioStart ~> (~OnScenario \/ ScenarioDone)

\* C18 witness: the scenario ran to its end.
C18_Witness == OnScenario /\ Len(invocations) = 4 /\ ScenarioDone

\* the result came from the JSON path
ViaJsonPath ==
    \/ op = "parse_classification" /\ ClassifyJsonPath(response).kind = "return"
    \/ op = "utils_parse_classification" /\ UtilsClassifyJsonPath(response).kind = "return"
\* the `fields` list of the decoded reply
ModelList == GetKey(json_loads(ClassifyJsonMatch(response).x).value, K_fields).items
\* the strings of a list, trimmed, without those that are empty after trimming
KeptStr(v) == isinstance_str(v) /\ NonEmpty(Strip(StrOf(v)))
KeptEntries(items) == [i \in 1..Len(SelectSeq(items, KeptStr)) |->
                          Strip(StrOf(SelectSeq(items, KeptStr)[i]))]

\* C21 as stated: every element of the `fields` list returned through the
\* JSON path is a non-empty string without surrounding whitespace; the list
\* is the reply's list without its non-string entries and its entries that
\* are empty after trimming, in the same order.
C21_AsStated ==
    ViaJsonPath =>
       /\ \A i \in 1..Len(result.value.fields) :
             NonEmpty(result.value.fields[i]) /\ ~result.value.fields[i].pad
       /\ result.value.fields = KeptEntries(ModelList)

(***************************************************************************)
(* Further claims on the review parser                                     *)
(***************************************************************************)
\* the reply gives no usable item for the field: no JSON object, no matching
\* key, or an item that is no object with a `status` key
NoUsableItem(resp, f) ==
    \/ ~DecodedObject(resp)
    \/ MatchingKeys(ReplyObject(resp), f) = {}
    \/ ~HasStatus(ItemOf(ReplyObject(resp), f))

\* C22: a field has status ERROR in the result of parse_review exactly when
\* the reply did not decode to a JSON object, or the field has no matching
\* key, or its item is no object with a `status` key; an item whose status
\* text is "ERROR" is returned as FAIL.
C22_ErrorIsLocal ==
    op \in ReviewOps =>
        \A f \in Range(fields) :
            /\ result.value[f].status = ERROR <=> NoUsableItem(response, f)
            /\ (~NoUsableItem(response, f)
                  /\ NormStatus(ItemOf(ReplyObject(response), f)) = ERROR) =>
                   result.value[f].status = FAIL

\* C22 witness: an item with status "error" was parsed and its field is FAIL,
\* next to a field that has no key and is ERROR.
C22_Witness ==
    /\ op \in ReviewOps
    /\ DecodedObject(response)
    /\ \E f, g \in Range(fields) :
          /\ ~NoUsableItem(response, f)
          /\ NormStatus(ItemOf(ReplyObject(response), f)) = ERROR
          /\ result.value[f].status = FAIL
          /\ MatchingKeys(ReplyObject(response), g) = {}
          /\ result.value[g].status = ERROR

(***************************************************************************)
(* Further claims on the orchestrator                                      *)
(***************************************************************************)
\* C23 as stated: after a classification whose LLM call failed or whose
\* reply gave no field list, the session is reset or offers a non-empty
\* field list; it never waits at the field-selection step with no field to
\* select.
C23_AsStated ==
    session_state.step = 3 => session_state.classification_result.fields # <<>>

\* C25 as stated: under fair re-execution of the script, a session at step 1
\* reaches step 3 or step 0 and a session at step 4 reaches step 7 or step 0,
\* whatever the uploaded bytes and the OCR result; the step never stays at
\* 1, 2, 4, 5 or 6 forever.
C25_AsStated ==
    /\ (session_state.step = 1) ~> (session_state.step \in {3, 0})
    /\ (session_state.step = 4) ~> (session_state.step \in {7, 0})
    /\ \A k \in {1, 2, 4, 5, 6} : ~<>[](session_state.step = k)

\* a result of extract_text that begins with one of its two markers
IsMarker(pieces) == pieces # <<>> /\ pieces[1] \in {OCR_ERROR, OCR_INFO}
\* the run of the script that calls extract_text
OcrRan == session_state.step = 1 /\ Len(invocations') = Len(invocations) + 1

\* C27 as stated: the orchestrator treats the result of extract_text as a
\* failure (reset, no text stored, no classification) exactly when it begins
\* with "OCR ERROR:" or "OCR INFO:"; a reconstructed document text is stored
\* for classification whatever it contains.
C27_AsStated ==
    [][OcrRan =>
          LET ocr_text_result == extract_text_surya(invocations'[1].reply).value IN
          /\ (session_state'.step = 0 /\ session_state'.ocr_text = None)
                <=> IsMarker(ocr_text_result)
          /\ ~IsMarker(ocr_text_result) =>
                (session_state'.step = 2 /\ session_state'.ocr_text = Str(ocr_text_result))
      ]_vars

\* the keys of a dict of the session
SessionKeys(dict) == {dict.d[i].k : i \in 1..Len(dict.d)}

Clustered == Converted /\ lr.trace # <<>>
\* the index of the box that opened the band of box i
BandStart(tr, i) == CHOOSE j \in 1..i : tr[j].newBand /\ \A k \in (j + 1)..i : ~tr[k].newBand
\* the smallest ymin among the boxes j..i
TopMost(tr, j, i) ==
    CHOOSE y \in {TopOf(tr[k].box) : k \in j..i} : \A k \in j..i : y <= TopOf(tr[k].box)
\* the boxes of the bands, band by band, as the trace gives them
RECURSIVE BandsOf(_, _, _, _)
BandsOf(tr, i, bands, cur) ==
    IF i > Len(tr) THEN (IF cur = <<>> THEN bands ELSE Append(bands, cur))
    ELSE IF tr[i].newBand
         THEN BandsOf(tr, i + 1, IF cur = <<>> THEN bands ELSE Append(bands, cur), <<tr[i].box>>)
         ELSE BandsOf(tr, i + 1, bands, Append(cur, tr[i].box))
Occurrences(s, x) == Cardinality({i \in 1..Len(s) : s[i] = x})
TraceBoxes(tr) == [i \in 1..Len(tr) |-> tr[i].box]

\* C26: in the clustering the reference ymin of a band is, for every box
\* added to it, the ymin of the band's first and topmost box and never goes
\* up; every box of a band is within y_tolerance of that box, so no box joins
\* a band through a neighbour; and every well-formed line is in exactly one
\* band of the output.
C26_BandAnchoring ==
    Clustered =>
       /\ \A i \in 1..Len(lr.trace) :
             ~lr.trace[i].newBand =>
                LET j == BandStart(lr.trace, i) IN
                /\ lr.trace[i].anchor = TopOf(lr.trace[j].box)
                /\ lr.trace[i].anchor = TopMost(lr.trace, j, i)
                /\ ~Exceeds(Abs(TopOf(lr.trace[i].box) - TopOf(lr.trace[j].box)), lr.m2)
                /\ (i > j + 1 => lr.trace[i].anchor <= lr.trace[i - 1].anchor)
       /\ \A i \in 1..Len(line_data) :
             WellFormedLine(line_data[i]) =>
                Occurrences(TraceBoxes(lr.trace), line_data[i]) = Occurrences(line_data, line_data[i])
       /\ LET bands == BandsOf(lr.trace, 1, <<>>, <<>>)
          IN lr.out = Join("\n", [b \in 1..Len(bands) |-> BandText(bands[b])])

\* C26 witness: the lines with ymin 0, 7 and 8 and height 10: the second is
\* within the tolerance of the first and joins its band, the third is within
\* the tolerance of the second but not of the first and opens a new band.
C26_Witness ==
    /\ Clustered
    /\ Len(lr.trace) = 3
    /\ [i \in 1..3 |-> TopOf(lr.trace[i].box)] = <<0, 7, 8>>
    /\ [i \in 1..3 |-> lr.trace[i].newBand] = <<TRUE, FALSE, TRUE>>
    /\ ~Exceeds(Abs(TopOf(lr.trace[3].box) - TopOf(lr.trace[2].box)), lr.m2)

(***************************************************************************)
(* Classification prompt: utils/classifier_utils.py                        *)
(* create_classification_prompt_messages, build_classification_prompt and  *)
(* their text-only variants.  A prompt is the sequence of its parts: the   *)
(* literal parts of the f-string and the interpolated values.              *)
(***************************************************************************)
Lit(str) == [t |-> "literal", s |-> str]
Interpolated(v) == [t |-> "value", v |-> v]
TaskLines == Lit("1. Classify the document type 2. Suggest key fields")
FormatLines == Lit("IMPORTANT: Format your response ONLY as a single JSON object")
\* json.dumps of the example {"doc_type": "invoice", "fields": [...]}
example_json == [t |-> "json_text", indent |-> 2, v |-> "example"]

\* build_classification_prompt(text), lines 31-52: the f-string interpolates
\* example_json only
build_classification_prompt(txt) ==
    <<Lit("Analyze the provided document."), TaskLines,
      FormatLines, Interpolated(example_json)>>

\* build_classification_prompt_text(text), lines 54-79
build_classification_prompt_text(txt) ==
    <<Lit("Analyze the provided document."), Lit("OCR TEXT"), Interpolated(txt), TaskLines,
      FormatLines, Interpolated(example_json)>>

\* the bytes of a file: fmt is the format PIL reports on opening them,
\* "none" when it reports none, "undecodable" when Image.open raises
ImageFile(n, fmt) == [t |-> "bytes", len |-> n, fmt |-> fmt]
\* _image_bytes_to_base64_url(image_bytes), lines 17-29
_image_bytes_to_base64_url(bytes) ==
    IF ~BytesTruthy(bytes) THEN None
    ELSE IF bytes.fmt = "undecodable" THEN None
    ELSE LET format == IF bytes.fmt = "none" THEN "jpeg"
                       ELSE IF bytes.fmt \in {"JPEG", "PNG", "GIF", "WEBP"} THEN bytes.fmt
                       ELSE "jpeg"
         IN [t |-> "data_url", format |-> format, base64 |-> bytes]

UserMessage(content) == [role |-> "user", content |-> content]
PlainContent(prompt) == [t |-> "str", prompt |-> prompt]
PartsContent(url, prompt) == [t |-> "parts", image_url |-> url, prompt |-> prompt]

\* create_classification_prompt_messages(text, image_bytes), lines 81-109
create_classification_prompt_messages(txt, bytes) ==
    IF ~Truthy(txt) /\ ~BytesTruthy(bytes) THEN None
    ELSE LET text_prompt_content == build_classification_prompt(txt) IN
         IF BytesTruthy(bytes)
         THEN LET image_url == _image_bytes_to_base64_url(bytes) IN
              IF image_url # None
              THEN [t |-> "messages",
                    list |-> <<UserMessage(PartsContent(image_url, text_prompt_content))>>]
              ELSE IF ~Truthy(txt) THEN None
                   ELSE [t |-> "messages",
                         list |-> <<UserMessage(PlainContent(text_prompt_content))>>]
         ELSE IF ~Truthy(txt) THEN None
              ELSE [t |-> "messages",
                    list |-> <<UserMessage(PlainContent(text_prompt_content))>>]

\* create_classification_prompt_messages_text(text), lines 111-123
create_classification_prompt_messages_text(txt) ==
    IF ~Truthy(txt) THEN None
    ELSE [t |-> "messages",
          list |-> <<UserMessage(PlainContent(build_classification_prompt_text(txt)))>>]

PromptTexts ==
    {EmptyStr, Blank}
    \cup {S(w, c, pad) : w \in {"invoice 42", "total"}, c \in {"lower", "upper", "mixed"},
                         pad \in BOOLEAN}
PromptImages ==
    {None, ImageFile(0, "undecodable")}
    \cup {ImageFile(n, fmt) : n \in {1, 2},
             fmt \in {"PNG", "JPEG", "GIF", "WEBP", "BMP", "none", "undecodable"}}

InitPrompt ==
    /\ text \in PromptTexts
    /\ image_bytes \in PromptImages
    /\ op = "init"
    /\ result = NoResult
    /\ fields = <<>> /\ response = Reply("none", Prose)
    /\ extracted = <<>> /\ llm_calls = 0
    /\ LinesIdle /\ OcrIdle /\ AppIdle /\ GradioIdle

CreateMessages ==
    /\ op = "init"
    /\ op' = "create_classification_prompt_messages"
    /\ result' = create_classification_prompt_messages(text, image_bytes)
    /\ UNCHANGED <<fields, response, lineVars, ocrVars, stageVars, appVars, promptVars, grVars>>

CreateMessagesText ==
    /\ op = "init"
    /\ op' = "create_classification_prompt_messages_text"
    /\ result' = create_classification_prompt_messages_text(text)
    /\ UNCHANGED <<fields, response, lineVars, ocrVars, stageVars, appVars, promptVars, grVars>>

NextPrompt ==
    \/ CreateMessages
    \/ CreateMessagesText

SpecPrompt == InitPrompt /\ [][NextPrompt]_vars

(***************************************************************************)
(* Claim on the classification prompt                                      *)
(***************************************************************************)
\* the textual instructions of a payload hold the value
Carries(messages, v) ==
    \E i \in 1..Len(messages.list[1].content.prompt) :
        messages.list[1].content.prompt[i] = Interpolated(v)

\* C29 as stated: whenever create_classification_prompt_messages returns a
\* payload and a text was supplied, the payload's textual instructions
\* include that text.
C29_AsStated ==
    (op = "create_classification_prompt_messages" /\ result # None /\ Truthy(text)) =>
        Carries(result, text)

(***************************************************************************)
(* Orchestrator of gradio_app.py.  Its three handlers write the session    *)
(* (the gr.State values and the components) through the dicts they yield   *)
(* or return; a dict updates the components it names and leaves the others *)
(* as they are.  handle_upload and handle_confirm_and_extract are          *)
(* generators: each step below runs one of them up to its next yield, and  *)
(* the steps of different handlers interleave.                             *)
(*                                                                         *)
(* `from extractor import extract_key_value_pairs` (line 15) raises        *)
(* ImportError, extractor.py having no such function, so the module runs   *)
(* with the four fallback functions of lines 27-30.                        *)
(***************************************************************************)
INITIAL_STATUS == "Idle - Waiting for document upload."
\* gradio_app.py DEFAULT_FIELDS, line 35
DEFAULT_FIELDS_gradio == <<Name("Field A"), Name("Field B"), Name("Field C")>>

\* line 27: extract_text(img_bytes, ocr_engine='google_vision')
fallback_extract_text(img_bytes) ==
    Return(<<"DUMMY OCR for ", ToString(img_bytes.len), " bytes. Import failed.">>)
\* line 28: classify_and_suggest_fields(text, user_fields=None), called with
\* the keyword arguments kwargs
fallback_classify_and_suggest_fields(kwargs) ==
    IF kwargs \subseteq {"text", "user_fields"}
    THEN Return(Classification(S("dummy (import failed)", "lower", FALSE),
                               <<Name("Field A"), Name("Field B")>>))
    ELSE Raise("TypeError")
\* line 29: extract_key_value_pairs(fields, ocr_text, image_bytes)
fallback_extract_key_value_pairs(flds) ==
    [i \in 1..Len(flds) |->
        Pair(flds[i], JStr(S("dummy value " \o ToString(i), "lower", FALSE)))]
\* line 30: review_fields(fields_to_review, ocr_text, image_bytes), over the
\* keys of the dict it is given
fallback_review_fields(fields_to_review) ==
    [f \in {fields_to_review[i].k : i \in 1..Len(fields_to_review)} |->
        Entry(S("dummy", "upper", FALSE), Fb("import failed", EmptyStr))]

\* the artifacts of a session
Artifacts == {"ocr_text", "classification_result", "selected_fields",
              "extraction_result", "review_result"}

\* lines 304-311 and the components' initial values
GradioInitial ==
    [step |-> 0, image_bytes |-> None, ocr_text |-> None, classification_result |-> None,
     selected_fields |-> <<>>, extraction_result |-> None, review_result |-> None,
     filename |-> None,
     status_text |-> INITIAL_STATUS,
     choices |-> <<>>, checkboxes_interactive |-> FALSE, confirm_interactive |-> FALSE,
     field_selection_group |-> FALSE, download_button |-> FALSE, download_file |-> None]
Idle == [pc |-> "idle"]
\* no upload yet, no artifact
NoProvenance ==
    [current |-> 0, choices |-> 0, ocr_text |-> 0, classification_result |-> 0,
     selected_fields |-> 0, extraction_result |-> 0, review_result |-> 0]
\* every artifact cleared
Cleared(prov) == [NoProvenance EXCEPT !.current = prov.current, !.choices = prov.choices]

\* the state updates of lines 50-57 and of reset_all, lines 287-294
StatesReset(g) ==
    [g EXCEPT !.step = 0, !.image_bytes = None, !.ocr_text = None,
              !.classification_result = None, !.selected_fields = <<>>,
              !.extraction_result = None, !.review_result = None, !.filename = None]

\* reset_all, lines 270-294
reset_all(g) ==
    [StatesReset(g) EXCEPT !.status_text = INITIAL_STATUS, !.choices = <<>>,
                           !.checkboxes_interactive = FALSE, !.confirm_interactive = FALSE,
                           !.field_selection_group = FALSE, !.download_button = FALSE,
                           !.download_file = None]

\* the number of files a session accepts
MaxUploads == 2
\* what the upload event hands to handle_upload: no file, a path that does
\* not exist, a file that cannot be read, or the bytes of a file
GradioUploads ==
    {None, [t |-> "invalid_path"], [t |-> "unreadable"],
     ImageFile(1, "PNG"), ImageFile(2, "JPEG"), ImageFile(1, "undecodable")}

InitGradio ==
    /\ gr = GradioInitial
    /\ upload_run = Idle
    /\ confirm_run = Idle
    /\ provenance = NoProvenance
    /\ ParseIdle /\ LinesIdle /\ OcrIdle /\ StageIdle /\ AppIdle /\ PromptIdle

\* everything but the Gradio session
notGradio ==
    <<parseVars, lineVars, ocrVars, stageVars, appVars, promptVars>>

\* handle_upload up to its first yield, lines 40-92: without a file the
\* states are reset; a path that is no file or cannot be read changes the
\* status alone; a file that Image.open rejects ends the handler with the
\* exception, nothing yielded; else the bytes of the file open a run
UploadStart ==
    /\ upload_run = Idle
    /\ \E file_obj \in GradioUploads :
        IF file_obj = None
        THEN /\ gr' = [StatesReset(gr) EXCEPT !.status_text = INITIAL_STATUS,
                                             !.field_selection_group = FALSE,
                                             !.download_button = FALSE]
             /\ provenance' = Cleared(provenance)
             /\ UNCHANGED upload_run
        ELSE IF file_obj.t = "invalid_path"
        THEN /\ gr' = [gr EXCEPT !.status_text = "Error - Invalid file object received."]
             /\ UNCHANGED <<upload_run, provenance>>
        ELSE IF file_obj.t = "unreadable"
        THEN /\ gr' = [gr EXCEPT !.status_text = "Error reading uploaded file"]
             /\ UNCHANGED <<upload_run, provenance>>
        ELSE IF file_obj.fmt = "undecodable"
        THEN UNCHANGED <<gr, upload_run, provenance>>
        ELSE /\ provenance.current < MaxUploads
             /\ gr' = [gr EXCEPT !.status_text = "Processing - Performing OCR...",
                                 !.image_bytes = file_obj,
                                 !.filename = Name("document"),
                                 !.step = 1,
                                 !.field_selection_group = FALSE,
                                 !.download_button = FALSE]
             /\ provenance' = [provenance EXCEPT !.current = @ + 1]
             /\ upload_run' = [pc |-> "ocr", img_bytes |-> file_obj,
                               doc |-> provenance.current + 1]
    /\ UNCHANGED <<confirm_run, notGradio>>

\* the OCR step, lines 94-105
UploadOCR ==
    /\ upload_run.pc = "ocr"
    /\ LET ocr_text_result == fallback_extract_text(upload_run.img_bytes).value IN
        IF ContainsERROR(ocr_text_result)
        THEN /\ gr' = [gr EXCEPT !.status_text = "Error during OCR"]
             /\ upload_run' = Idle
             /\ UNCHANGED provenance
        ELSE /\ gr' = [gr EXCEPT !.ocr_text = Str(ocr_text_result)]
             /\ provenance' = [provenance EXCEPT !.ocr_text = upload_run.doc]
             /\ upload_run' = [upload_run EXCEPT !.pc = "classify_status"]
    /\ UNCHANGED <<confirm_run, notGradio>>

\* line 108
UploadClassifyStatus ==
    /\ upload_run.pc = "classify_status"
    /\ gr' = [gr EXCEPT !.status_text = "Processing - Classifying document..."]
    /\ upload_run' = [upload_run EXCEPT !.pc = "classify"]
    /\ UNCHANGED <<confirm_run, provenance, notGradio>>

\* the yield of lines 126-136 and that of lines 142-151
FieldSelection(g, status, classification_res) ==
    [g EXCEPT !.status_text = status,
              !.choices = classification_res.fields,
              !.checkboxes_interactive = TRUE,
              !.confirm_interactive = TRUE,
              !.field_selection_group = TRUE,
              !.classification_result = classification_res,
              !.selected_fields = classification_res.fields,
              !.step = 3]
Suggested(prov, doc) ==
    [prov EXCEPT !.choices = doc, !.classification_result = doc, !.selected_fields = doc]

\* the classification step, lines 109-140: the call, the defaults for an
\* error or for no fields, and, on an exception, the status of line 140
UploadClassify ==
    /\ upload_run.pc = "classify"
    /\ LET called == fallback_classify_and_suggest_fields({"text", "image_bytes"}) IN
        IF called.kind = "raise"
        THEN /\ gr' = [gr EXCEPT !.status_text = "Error during Classification"]
             /\ upload_run' = [upload_run EXCEPT !.pc = "classify_failed"]
             /\ UNCHANGED provenance
        ELSE LET classification_res ==
                     IF called.value.doc_type = S("error", "lower", FALSE)
                        \/ called.value.fields = <<>>
                     THEN Classification(S("unknown (using defaults)", "lower", FALSE),
                                         DEFAULT_FIELDS_gradio)
                     ELSE called.value
             IN /\ gr' = FieldSelection(gr, "Action Required", classification_res)
                /\ provenance' = Suggested(provenance, upload_run.doc)
                /\ upload_run' = Idle
    /\ UNCHANGED <<confirm_run, notGradio>>

\* lines 142-151
UploadClassifyFailed ==
    /\ upload_run.pc = "classify_failed"
    /\ gr' = FieldSelection(gr, "Classification Failed - Using default fields.",
                            Classification(S("error", "lower", FALSE),
                                           DEFAULT_FIELDS_gradio))
    /\ provenance' = Suggested(provenance, upload_run.doc)
    /\ upload_run' = Idle
    /\ UNCHANGED <<confirm_run, notGradio>>

\* a click on the confirm button, which the page takes while the button is
\* interactive and its group visible, runs handle_confirm_and_extract up to
\* its first yield, lines 154-174, on the ticked choices and on the
\* session's OCR text and image
ConfirmStart ==
    /\ confirm_run = Idle
    /\ gr.confirm_interactive /\ gr.field_selection_group
    /\ \E I \in SUBSET (1..Len(gr.choices)) :
        LET selected_fields_list == Ticked(gr.choices, I)
        IN IF selected_fields_list = <<>>
           THEN /\ gr' = [gr EXCEPT !.status_text = "Error - No fields selected."]
                /\ UNCHANGED <<confirm_run, provenance>>
           ELSE /\ gr' = [gr EXCEPT !.status_text = "Processing - Extracting fields...",
                                    !.field_selection_group = FALSE,
                                    !.confirm_interactive = FALSE,
                                    !.checkboxes_interactive = FALSE,
                                    !.download_button = FALSE,
                                    !.selected_fields = selected_fields_list,
                                    !.step = 4]
                /\ provenance' = [provenance EXCEPT !.selected_fields = provenance.choices]
                /\ confirm_run' = [pc |-> "extract",
                                   selected_fields_list |-> selected_fields_list,
                                   suggested |-> gr.choices,
                                   ocr_text |-> gr.ocr_text,
                                   image_bytes |-> gr.image_bytes,
                                   doc |-> provenance.choices]
    /\ UNCHANGED <<upload_run, notGradio>>

\* the extraction step, lines 176-196
ConfirmExtract ==
    /\ confirm_run.pc = "extract"
    /\ LET extraction_res == fallback_extract_key_value_pairs(confirm_run.selected_fields_list)
       IN /\ gr' = [gr EXCEPT !.status_text = "Extraction Complete. Pausing before review...",
                              !.extraction_result = Dict(extraction_res),
                              !.step = 5]
          /\ confirm_run' = [pc |-> "pause",
                             selected_fields_list |-> confirm_run.selected_fields_list,
                             suggested |-> confirm_run.suggested,
                             ocr_text |-> confirm_run.ocr_text,
                             image_bytes |-> confirm_run.image_bytes,
                             doc |-> confirm_run.doc,
                             extraction_res |-> extraction_res]
    /\ provenance' = [provenance EXCEPT !.extraction_result = confirm_run.doc]
    /\ UNCHANGED <<upload_run, notGradio>>

\* the pause, lines 198-201
ConfirmPause ==
    /\ confirm_run.pc = "pause"
    /\ gr' = [gr EXCEPT !.step = 6]
    /\ confirm_run' = [confirm_run EXCEPT !.pc = "review_status"]
    /\ UNCHANGED <<upload_run, provenance, notGradio>>

\* line 204
ConfirmReviewStatus ==
    /\ confirm_run.pc = "review_status"
    /\ gr' = [gr EXCEPT !.status_text = "Processing - Reviewing extraction..."]
    /\ confirm_run' = [confirm_run EXCEPT !.pc = "review"]
    /\ UNCHANGED <<upload_run, provenance, notGradio>>

\* the review step, lines 205-238
ConfirmReview ==
    /\ confirm_run.pc = "review"
    /\ LET review_res == fallback_review_fields(confirm_run.extraction_res)
       IN gr' = [gr EXCEPT !.status_text = "Complete - Review finished.",
                           !.download_button = TRUE,
                           !.review_result = [t |-> "dict", d |-> review_res],
                           !.step = 7]
    /\ provenance' = [provenance EXCEPT !.review_result = confirm_run.doc]
    /\ confirm_run' = Idle
    /\ UNCHANGED <<upload_run, notGradio>>

\* a click on the reset button, lines 270-294 and 424-429; the handlers
\* that are running go on
ResetAll ==
    /\ gr # GradioInitial
    /\ gr' = reset_all(gr)
    /\ provenance' = [NoProvenance EXCEPT !.current = provenance.current]
    /\ UNCHANGED <<upload_run, confirm_run, notGradio>>

\* a click on the download button, lines 417-421
Download ==
    /\ gr.download_button
    /\ gr.download_file # prepare_download_json(gr.extraction_result)
    /\ gr' = [gr EXCEPT !.download_file = prepare_download_json(gr.extraction_result)]
    /\ UNCHANGED <<upload_run, confirm_run, provenance, notGradio>>

NextGradio ==
    \/ UploadStart
    \/ UploadOCR
    \/ UploadClassifyStatus
    \/ UploadClassify
    \/ UploadClassifyFailed
    \/ ConfirmStart
    \/ ConfirmExtract
    \/ ConfirmPause
    \/ ConfirmReviewStatus
    \/ ConfirmReview
    \/ ResetAll
    \/ Download

SpecGradio == InitGradio /\ [][NextGradio]_vars

(***************************************************************************)
(* Claims on the Gradio orchestrator                                       *)
(***************************************************************************)
\* the session holds the artifact
Holds(g, a) == IF a = "selected_fields" THEN g[a] # <<>> ELSE g[a] # None
\* an artifact the session holds was made from some upload, and the others
\* from none
ProvenanceKept == \A a \in Artifacts : Holds(gr, a) <=> provenance[a] > 0

\* C30: once handle_upload has accepted a file, the session holds no OCR
\* text, classification result, selected fields, extraction result or review
\* result of a document uploaded before it, whatever the interleaving of
\* upload, confirm and reset events
C30_AsStated ==
    provenance.current > 0 =>
        \A a \in Artifacts : Holds(gr, a) => provenance[a] = provenance.current

\* a confirmation event with a non-empty selection: the first yield of
\* handle_confirm_and_extract
Confirmed == confirm_run.pc = "idle" /\ confirm_run'.pc = "extract"
\* the call of the extraction stage
ExtractionInvoked == confirm_run.pc = "extract" /\ confirm_run'.pc = "pause"

\* C24: after classification the session stays at the field-selection step
\* (3) until a confirmation event with a non-empty selection arrives, an
\* upload or a reset apart; extraction is invoked only for such an event and
\* with exactly the confirmed list; the confirmed list is a subset of the
\* suggested fields; and confirming leaves extraction_result and
\* review_result empty before extraction starts
C24_AsStated ==
    [][/\ (gr.step = 3 /\ gr'.step > 3) => Confirmed
       /\ Confirmed =>
            /\ confirm_run'.selected_fields_list # <<>>
            /\ gr'.selected_fields = confirm_run'.selected_fields_list
            /\ gr.classification_result # None
            /\ Range(confirm_run'.selected_fields_list)
                   \subseteq Range(gr.classification_result.fields)
            /\ gr'.extraction_result = None
            /\ gr'.review_result = None
       /\ ExtractionInvoked =>
            /\ DictKeys(confirm_run'.extraction_res) = confirm_run.selected_fields_list
            /\ gr'.extraction_result = Dict(confirm_run'.extraction_res)
      ]_vars

====
